---- MODULE Spec2Model ----
(***************************************************************************)
(* A model of the dashboard core of src/dashboard.py: the planner tree     *)
(* (PlannerTreeState), the state engine (DashboardState), the NDJSON       *)
(* producers and the render loop of main().                                *)
(*                                                                         *)
(* Python values are encoded as sequences of tokens.  A string is the      *)
(* sequence of its tokens (the empty string is <<>>); the token "-sub-"    *)
(* is the separator the id convention uses, "1" is a decimal digit.  The   *)
(* values that are not strings start with a "#" token.                     *)
(***************************************************************************)
EXTENDS Integers, Sequences, FiniteSets, TLC

VARIABLES
    state,      \* the DashboardState object (its tree is state.tree)
    last,       \* the last call made on the object, its arguments and outcome
    calls,      \* number of calls made so far
    run,        \* the producer thread, the event queue and main's render loop
    tty,        \* the KeyPoller: the bytes waiting on the terminal, the last token
    sync,       \* the lock of the DashboardState and the threads that call it
    manager     \* the SandboxManager and the coroutines that call run_task

vars == <<state, last, calls, run, tty, sync, manager>>

------------------------------------------------------------------------------
(* Bounds of the model *)

MaxCalls == 3

------------------------------------------------------------------------------
(* Python values *)

NONE == <<"#None">>
ABSENT == <<"#absent">>
NUM == <<"#int", "1">>
LIST == <<"#list">>
Digits == {"0", "1", "2", "3", "4", "5", "6", "7", "8", "9"}
SUB == "-sub-"

IsStr(v) == \A i \in 1..Len(v) : v[i] \notin {"#None", "#absent", "#int", "#list"}

Hashable(v) == v # LIST

\* bool(v): None, the empty string (and a key that is absent) are falsy
Truthy(v) == v # NONE /\ v # ABSENT /\ v # <<>>

\* a or b
Or(a, b) == IF Truthy(a) THEN a ELSE b

\* str(v)
Str(v) ==
    IF IsStr(v) THEN v
    ELSE IF v = NUM THEN <<"1">>
    ELSE IF v = NONE THEN <<"None">>
    ELSE <<"[1]">>

\* d.get(k, default) on a dict modelled as a function
Get(d, k, default) == IF k \in DOMAIN d THEN d[k] ELSE default

\* d[k] = v
Put(d, k, v) == [x \in DOMAIN d \cup {k} |-> IF x = k THEN v ELSE d[x]]

SetMax(S) == CHOOSE x \in S : \A y \in S : y <= x

Min2(a, b) == IF a <= b THEN a ELSE b

Max2(a, b) == IF a >= b THEN a ELSE b

------------------------------------------------------------------------------
(* PlannerTreeState *)

ROOT_ID == <<"root-planner">>

PlannerTreeState ==
    [parent   |-> (ROOT_ID :> NONE),
     children |-> (ROOT_ID :> <<>>),
     status   |-> (ROOT_ID :> "running"),
     role     |-> (ROOT_ID :> "root-planner"),
     order    |-> (ROOT_ID :> 0),
     counter  |-> 1]

\* re.match(r"^(.*)-sub-\d+$", task_id): the positions of a "-sub-" that is
\* followed by one or more digits up to the end of the string
InferMatch(task_id) ==
    {i \in 1..Len(task_id) :
        /\ task_id[i] = SUB
        /\ i < Len(task_id)
        /\ \A j \in (i + 1)..Len(task_id) : task_id[j] \in Digits}

infer_parent_id(task_id) ==
    IF InferMatch(task_id) = {} THEN NONE
    ELSE SubSeq(task_id, 1, SetMax(InferMatch(task_id)) - 1)

\* The result of a call: the object after it and whether it raised
Ok(t) == [t |-> t, raised |-> FALSE]

Raise(t) == [t |-> t, raised |-> TRUE]

\* the parent ensure() settles on (lines 88-91)
EffectiveParent(node_id, parent_id) ==
    IF node_id = ROOT_ID THEN NONE
    ELSE IF parent_id = NONE THEN Or(infer_parent_id(node_id), ROOT_ID)
    ELSE parent_id

\* a faulty variant of Upsert: a known node is given a new order on every
\* mention
Upsert_Renumber(t, node_id, parent_id, role) ==
    [t EXCEPT
        !.parent = IF node_id \in DOMAIN @ THEN @ ELSE Put(@, node_id, parent_id),
        !.children = IF node_id \in DOMAIN @ THEN @ ELSE Put(@, node_id, <<>>),
        !.status = IF node_id \in DOMAIN @ THEN @ ELSE Put(@, node_id, "pending"),
        !.role = IF role # "None" THEN Put(@, node_id, role) ELSE @,
        !.order = Put(@, node_id, t.counter),
        !.counter = @ + 1]

\* lines 93-102: register a new node, or update the role of a known one
Upsert(t, node_id, parent_id, role) ==
    IF node_id \notin DOMAIN t.parent
    THEN [t EXCEPT
            !.parent = Put(@, node_id, parent_id),
            !.children = IF node_id \in DOMAIN @ THEN @ ELSE Put(@, node_id, <<>>),
            !.status = IF node_id \in DOMAIN @ THEN @ ELSE Put(@, node_id, "pending"),
            !.role = IF role # "None" THEN Put(@, node_id, role) ELSE @,
            !.order = Put(@, node_id, t.counter),
            !.counter = @ + 1]
    ELSE IF role # "None" THEN [t EXCEPT !.role = Put(@, node_id, role)]
    ELSE t

\* list.remove(x): drops the first occurrence
Remove(s, x) ==
    LET i == CHOOSE k \in 1..Len(s) : s[k] = x /\ \A j \in 1..(k - 1) : s[j] # x
    IN SubSeq(s, 1, i - 1) \o SubSeq(s, i + 1, Len(s))

InSeq(x, s) == \E i \in 1..Len(s) : s[i] = x

\* a faulty variant of AppendChild: appends without looking for the id first
AppendChild_NoGuard(t, node_id, parent_id) ==
    [t EXCEPT !.children =
        Put(@, parent_id, Append(Get(t.children, parent_id, <<>>), node_id))]

\* lines 112-114: kids = children.setdefault(parent_id, []); append if missing
AppendChild(t, node_id, parent_id) ==
    LET kids == Get(t.children, parent_id, <<>>)
    IN [t EXCEPT !.children =
            Put(@, parent_id, IF InSeq(node_id, kids) THEN kids ELSE Append(kids, node_id))]

\* a faulty variant of Reparent: the id stays in the old parent's child list
Reparent_KeepOld(t, node_id, parent_id) ==
    [t EXCEPT !.parent = Put(@, node_id, parent_id)]

\* lines 115-119: leave the old parent's list and point at the new parent
Reparent(t, node_id, parent_id) ==
    IF t.parent[node_id] # parent_id
    THEN LET old_parent == t.parent[node_id]
             c == IF Truthy(old_parent) /\ InSeq(node_id, Get(t.children, old_parent, <<>>))
                  THEN Put(t.children, old_parent, Remove(t.children[old_parent], node_id))
                  ELSE t.children
         IN [t EXCEPT !.children = c, !.parent = Put(@, node_id, parent_id)]
    ELSE t

RECURSIVE ensure(_, _, _, _)
ensure(t, node_id, parent_id, role) ==
    IF ~Truthy(node_id) THEN Ok(t)
    ELSE IF node_id # ROOT_ID /\ parent_id = NONE /\ ~IsStr(node_id)
    THEN Raise(t)                  \* re.match on a value that is no string
    ELSE IF ~Hashable(node_id) THEN Raise(t)
    ELSE
      LET pid == EffectiveParent(node_id, parent_id)
          t1 == Upsert(t, node_id, pid, role)
      IN IF pid = NONE THEN Ok(t1)
         ELSE IF ~Hashable(pid) THEN Raise(t1)
         ELSE
           LET r2 == IF pid \in DOMAIN t1.parent THEN Ok(t1)
                     ELSE IF ~IsStr(pid) THEN Raise(t1)
                     ELSE ensure(t1, pid, Or(infer_parent_id(pid), ROOT_ID), "None")
           IN IF r2.raised THEN r2
              ELSE Ok(Reparent(AppendChild(r2.t, node_id, pid), node_id, pid))

\* a faulty variant of update_status: a status that is complete, failed or
\* cancelled is final
update_status_TerminalKept(t, node_id, status, parent_id, role) ==
    LET r == ensure(t, node_id, parent_id, role)
    IN IF r.raised THEN r
       ELSE IF Get(r.t.status, node_id, "pending") \in {"complete", "failed", "cancelled"}
       THEN r
       ELSE Ok([r.t EXCEPT !.status = Put(@, node_id, status)])

\* lines 121-129
update_status(t, node_id, status, parent_id, role) ==
    LET r == ensure(t, node_id, parent_id, role)
    IN IF r.raised THEN r
       ELSE Ok([r.t EXCEPT !.status = Put(@, node_id, status)])

------------------------------------------------------------------------------
(* Progress values: the floats 0.0, 0.1, 0.25, 0.6, 1.0 and their means,    *)
(* kept exact as reduced fractions <<numerator, denominator>>               *)

RECURSIVE Gcd(_, _)
Gcd(a, b) == IF b = 0 THEN a ELSE Gcd(b, a % b)

Frac(n, d) == IF n = 0 THEN <<0, 1>> ELSE <<n \div Gcd(n, d), d \div Gcd(n, d)>>

FZero == <<0, 1>>

FOne == <<1, 1>>

FAdd(x, y) == Frac(x[1] * y[2] + y[1] * x[2], x[2] * y[2])

FDivInt(x, k) == Frac(x[1], x[2] * k)

FLeq(x, y) == x[1] * y[2] <= y[1] * x[2]

\* max(0.0, min(1.0, p))
Clamp01(p) == IF FLeq(p, FZero) THEN FZero ELSE IF FLeq(FOne, p) THEN FOne ELSE p

RECURSIVE FSum(_)
FSum(vals) == IF vals = <<>> THEN FZero ELSE FAdd(Head(vals), FSum(Tail(vals)))

\* a faulty variant of Mean: divides by one more than the number of values
Mean_OffByOne(vals) == FDivInt(FSum(vals), Len(vals) + 1)

\* sum(vals) / max(len(vals), 1)
Mean(vals) == FDivInt(FSum(vals), Max2(Len(vals), 1))

\* lines 144-152
status_progress ==
    ("idle" :> <<0, 1>>) @@ ("pending" :> <<1, 10>>) @@ ("assigned" :> <<1, 4>>)
    @@ ("running" :> <<3, 5>>) @@ ("complete" :> <<1, 1>>) @@ ("failed" :> <<1, 1>>)
    @@ ("cancelled" :> <<1, 1>>)

TerminalStatuses == {"complete", "failed", "cancelled"}

ActiveStatuses == {"pending", "assigned", "running"}

------------------------------------------------------------------------------
(* PlannerTreeState._depth_map and PlannerTreeState.snapshot *)

Range(s) == {s[i] : i \in 1..Len(s)}

\* the number of entries of all child lists: a walk of a tree pops no more
ChildEntries(t) ==
    LET RECURSIVE total(_)
        total(K) == IF K = {} THEN 0
                    ELSE LET k == CHOOSE x \in K : TRUE
                         IN Len(t.children[k]) + total(K \ {k})
    IN total(DOMAIN t.children)

\* lines 131-139: the breadth-first walk; "diverged" is set when the walk pops
\* more nodes than the child lists hold, which is a walk that would not end
RECURSIVE DepthWalk(_, _, _, _)
DepthWalk(t, depth, q, fuel) ==
    IF q = <<>> THEN [depth |-> depth, diverged |-> FALSE]
    ELSE IF fuel = 0 THEN [depth |-> depth, diverged |-> TRUE]
    ELSE LET cur == Head(q)
             kids == Get(t.children, cur, <<>>)
             d2 == [x \in DOMAIN depth \cup Range(kids) |->
                      IF x \in Range(kids) THEN depth[cur] + 1 ELSE depth[x]]
         IN DepthWalk(t, d2, Tail(q) \o kids, fuel - 1)

\* a faulty variant of depth_map: the walk stops below the children of the root
depth_map_Shallow(t) ==
    LET kids == Get(t.children, ROOT_ID, <<>>)
    IN [depth |-> [x \in {ROOT_ID} \cup Range(kids) |-> IF x = ROOT_ID THEN 0 ELSE 1],
        diverged |-> FALSE]

depth_map(t) == DepthWalk(t, (ROOT_ID :> 0), <<ROOT_ID>>, ChildEntries(t) + 1)

\* lines 156-169: calc(node_id); the memo only saves work, the value is this
RECURSIVE calc(_, _, _)
calc(t, node_id, fuel) ==
    LET kids == Get(t.children, node_id, <<>>)
        st == Get(t.status, node_id, "pending")
        p == IF st \in TerminalStatuses THEN FOne
             ELSE IF kids # <<>>
             THEN IF fuel = 0 THEN FZero
                  ELSE Mean([i \in 1..Len(kids) |-> calc(t, kids[i], fuel - 1)])
             ELSE Get(status_progress, st, FZero)
    IN Clamp01(p)

\* the nodes calc(ROOT_ID) reaches, which are the keys of the progress dict
RECURSIVE CalcVisited(_, _, _)
CalcVisited(t, node_id, fuel) ==
    LET kids == Get(t.children, node_id, <<>>)
        st == Get(t.status, node_id, "pending")
    IN IF st \in TerminalStatuses \/ fuel = 0 THEN {node_id}
       ELSE {node_id} \cup UNION {CalcVisited(t, kids[i], fuel - 1) : i \in 1..Len(kids)}

\* a faulty variant of SortedByOrder: the child list as it was appended to
SortedByOrder_Unsorted(kids, order) == kids

\* sorted(kids, key=order.get(x, 0)): a stable sort
RECURSIVE SortedByOrder(_, _)
SortedByOrder(kids, order) ==
    IF kids = <<>> THEN <<>>
    ELSE LET key(x) == Get(order, x, 0)
             i == CHOOSE k \in 1..Len(kids) :
                    /\ \A j \in 1..Len(kids) : key(kids[k]) <= key(kids[j])
                    /\ \A j \in 1..(k - 1) : key(kids[j]) # key(kids[k])
         IN <<kids[i]>> \o SortedByOrder(SubSeq(kids, 1, i - 1) \o SubSeq(kids, i + 1, Len(kids)), order)

\* lines 176-178
NodeRole(t, node_id, node_depth) ==
    IF node_id \in DOMAIN t.role THEN t.role[node_id]
    ELSE IF node_depth = 1 THEN "planner" ELSE "subplanner"

\* lines 183: progress.get(node_id, 0.0)
NodeProgress(t, node_id, progress) == Get(progress, node_id, FZero)

\* line 174: the children of a node as the snapshot lists them
sorted_kids(t, n) == SortedByOrder(Get(t.children, n, <<>>), t.order)

\* lines 141-189
snapshot(t) ==
    LET walk == depth_map(t)
        depth == walk.depth
        fuel == Cardinality(DOMAIN t.children) + 1
        visited == CalcVisited(t, ROOT_ID, fuel)
        progress == [n \in visited |-> calc(t, n, fuel)]
    IN [root |-> ROOT_ID,
        nodes |-> [n \in DOMAIN depth |->
                     [id |-> n,
                      depth |-> depth[n],
                      status |-> Get(t.status, n, "pending"),
                      progress |-> NodeProgress(t, n, progress),
                      children |-> sorted_kids(t, n),
                      role |-> NodeRole(t, n, depth[n])]],
        max_depth |-> SetMax({depth[n] : n \in DOMAIN depth}),
        diverged |-> walk.diverged]

------------------------------------------------------------------------------
(* DashboardState: construction (lines 197-232) *)

DashboardState ==
    [active_workers |-> 0, pending_tasks |-> 0, completed_tasks |-> 0,
     failed_tasks |-> 0, commits_per_hour |-> 0, merge_success_rate |-> 0,
     total_tokens |-> 0,
     tree |-> PlannerTreeState,
     visible_levels |-> 2,
     active_tab |-> "grid",
     in_progress_scroll |-> 0,
     completed_scroll |-> 0,
     merge_merged |-> 0, merge_conflicts |-> 0, merge_failed |-> 0,
     activity |-> <<>>,
     iteration |-> 0]

------------------------------------------------------------------------------
(* Events: one parsed NDJSON line.  A field that the object lacks is ABSENT;  *)
(* the optional numbers of "Metrics" and "Iteration complete" are <<>> when   *)
(* absent and <<n>> when given; "to" and "status" are "" when absent.         *)

MAX_ACTIVITY == 50

NoData ==
    [taskId |-> ABSENT, parentId |-> ABSENT, parentTaskId |-> ABSENT,
     subtaskId |-> ABSENT, to |-> "", status |-> "", desc |-> ABSENT,
     branch |-> ABSENT,
     activeWorkers |-> <<>>, pendingTasks |-> <<>>, completedTasks |-> <<>>,
     failedTasks |-> <<>>, commitsPerHour |-> <<>>, mergeSuccessRate |-> <<>>,
     totalTokensUsed |-> <<>>, iteration |-> <<>>, tasks |-> <<>>, count |-> <<>>,
     buildOk |-> FALSE, testsOk |-> FALSE]

\* obj: the line is a JSON object; data_kind: "object", "absent", or "string"
\* (a data field that is no object); timestamp: "absent", "number", "string"
Event(message) ==
    [obj |-> TRUE, message |-> message, level |-> ABSENT, agentRole |-> ABSENT,
     timestamp |-> "absent", taskId |-> ABSENT, data_kind |-> "object", d |-> NoData]

NoEvent == Event(ABSENT)

\* d.get(key): None when the key is absent
GetNone(v) == IF v = ABSENT THEN NONE ELSE v

\* d.get(key, ""): the empty string when the key is absent
GetStr(v) == IF v = ABSENT THEN <<>> ELSE v

\* d.get(key, 0): a field that is absent reads as zero
GetNum_ZeroDefault(opt, previous) == IF opt = <<>> THEN 0 ELSE opt[1]

\* d.get(key, previous) for an optional number
GetNum(opt, previous) == IF opt = <<>> THEN previous ELSE opt[1]

\* s[:k]; the strings of the model are shorter than every cut the code makes
Slice(s, k) == SubSeq(s, 1, Min2(k, Len(s)))

\* s[:k] raises TypeError on None and on a number
Sliceable(v) == IsStr(v)

\* a faulty variant of _event_node_role: the role of a planner is kept too
event_node_role_Planner(agent_role) ==
    IF agent_role \in {<<"subplanner">>, <<"worker">>, <<"planner">>} THEN agent_role[1]
    ELSE "None"

\* lines 236-242
event_node_role(agent_role) ==
    IF agent_role = <<"subplanner">> THEN "subplanner"
    ELSE IF agent_role = <<"worker">> THEN "worker"
    ELSE "None"

\* lines 283-287: the text of the time stamp
TsStr(ev) == IF ev.timestamp = "number" THEN <<"HH:MM:SS">> ELSE <<"now">>

\* appendleft on a deque that has no maxlen
feed_Unbounded(st, ts, msg, style) ==
    [st EXCEPT !.activity = <<(<<ts, msg, style>>)>> \o @]

\* lines 426-427: deque(maxlen=MAX_ACTIVITY).appendleft
feed(st, ts, msg, style) ==
    [st EXCEPT !.activity =
        LET a == <<(<<ts, msg, style>>)>> \o @
        IN IF Len(a) > MAX_ACTIVITY THEN SubSeq(a, 1, MAX_ACTIVITY) ELSE a]

------------------------------------------------------------------------------
(* DashboardState: the UI commands and snap() *)

\* the greatest depth of a pending, assigned or running node of the snapshot
ActiveMaxDepth(t) ==
    LET s == snapshot(t)
        active_depths == {s.nodes[n].depth : n \in
                            {m \in DOMAIN s.nodes : s.nodes[m].status \in ActiveStatuses}}
    IN IF active_depths = {} THEN 0 ELSE SetMax(active_depths)

\* lines 267-274
current_level_cap(st) == Max2(1, ActiveMaxDepth(st.tree) + 1)

\* a faulty variant of adjust_visible_levels: no upper clamp at the level cap
adjust_visible_levels_NoCap(st, delta) ==
    [st EXCEPT !.visible_levels = Max2(1, st.visible_levels + delta)]

\* lines 244-247
adjust_visible_levels(st, delta) ==
    [st EXCEPT !.visible_levels =
        Max2(1, Min2(current_level_cap(st), st.visible_levels + delta))]

\* lines 249-253
switch_tab(st, direction) ==
    LET i == IF st.active_tab = "activity" THEN 1 ELSE 0
    IN [st EXCEPT !.active_tab =
            IF (i + direction) % 2 = 0 THEN "grid" ELSE "activity"]

\* lines 255-258
set_tab(st, tab) ==
    IF tab \in {"grid", "activity"} THEN [st EXCEPT !.active_tab = tab] ELSE st

\* a faulty variant of adjust_tree_scroll: the offset is not kept at 0 or more
adjust_tree_scroll_NoFloor(st, pane, delta) ==
    IF pane = "in_progress"
    THEN [st EXCEPT !.in_progress_scroll = @ + delta]
    ELSE IF pane = "completed"
    THEN [st EXCEPT !.completed_scroll = @ + delta]
    ELSE st

\* lines 260-265
adjust_tree_scroll(st, pane, delta) ==
    IF pane = "in_progress"
    THEN [st EXCEPT !.in_progress_scroll = Max2(0, @ + delta)]
    ELSE IF pane = "completed"
    THEN [st EXCEPT !.completed_scroll = Max2(0, @ + delta)]
    ELSE st

\* a faulty variant of snap: the cursor is returned as it is
snap_NoClamp(st) == st

\* a faulty variant of snap: the cursor is put at the level cap
snap_ResetLevels(st) ==
    [st EXCEPT !.visible_levels = Max2(1, ActiveMaxDepth(st.tree) + 1)]

\* lines 431-443: what snap() does to the object
snap(st) ==
    LET cap == Max2(1, ActiveMaxDepth(st.tree) + 1)
    IN [st EXCEPT !.visible_levels = Max2(1, Min2(st.visible_levels, cap))]

------------------------------------------------------------------------------
(* DashboardState.ingest (lines 276-424) *)

\* a call on the tree made from a method of the engine
OnTree(st, r) == [t |-> [st EXCEPT !.tree = r.t], raised |-> r.raised]

\* data.get("parentId") or data.get("parentTaskId")
ParentField(d) == Or(GetNone(d.parentId), GetNone(d.parentTaskId))

\* a "Task completed" handler that takes every status for a failure
FinalStatus_AlwaysFailed(status) == "failed"

\* line 330
FinalStatus(status) == IF status = "complete" THEN "complete" ELSE "failed"

StatusText(status) == IF status = "" THEN <<>> ELSE <<status>>

\* lines 289-298: every event that carries a task id registers it
IngestTaskId(st, ev, d) ==
    LET event_task_id == Str(Or(Or(GetNone(d.taskId), GetNone(ev.taskId)), <<>>))
        parent_id == Or(ParentField(d), infer_parent_id(event_task_id))
    IN IF Truthy(event_task_id)
       THEN OnTree(st, ensure(st.tree, event_task_id, parent_id,
                              event_node_role(ev.agentRole)))
       ELSE Ok(st)

\* lines 301-308
OnMetrics(st, d) ==
    Ok([st EXCEPT
          !.active_workers = GetNum(d.activeWorkers, @),
          !.pending_tasks = GetNum(d.pendingTasks, @),
          !.completed_tasks = GetNum(d.completedTasks, @),
          !.failed_tasks = GetNum(d.failedTasks, @),
          !.commits_per_hour = GetNum(d.commitsPerHour, @),
          !.merge_success_rate = GetNum(d.mergeSuccessRate, @),
          !.total_tokens = GetNum(d.totalTokensUsed, @)])

\* lines 311-316
OnTaskStatus(st, d, node_role) ==
    LET task_id == GetStr(d.taskId)
    IN IF Truthy(task_id) /\ d.to # ""
       THEN OnTree(st, update_status(st.tree, task_id, d.to, ParentField(d), node_role))
       ELSE Ok(st)

\* lines 319-325
OnTaskCreated(st, d, node_role, ts) ==
    LET task_id == GetStr(d.taskId)
        desc == GetStr(d.desc)
        r == IF Truthy(task_id)
             THEN OnTree(st, update_status(st.tree, task_id, "pending", ParentField(d),
                                           node_role))
             ELSE Ok(st)
    IN IF r.raised THEN r
       ELSE IF ~Sliceable(desc) THEN Raise(r.t)
       ELSE Ok(feed(r.t, ts, <<"  + ">> \o Str(task_id) \o <<"  ">> \o Slice(desc, 52),
                    "cyan"))

\* lines 328-336
OnTaskCompleted(st, d, node_role, ts) ==
    LET task_id == GetStr(d.taskId)
        final == FinalStatus(d.status)
        r == IF Truthy(task_id)
             THEN OnTree(st, update_status(st.tree, task_id, final, ParentField(d),
                                           node_role))
             ELSE Ok(st)
    IN IF r.raised THEN r
       ELSE Ok(feed(r.t, ts, <<"  ">> \o Str(task_id) \o <<"  ">> \o StatusText(d.status),
                    IF final = "complete" THEN "green" ELSE "red"))

\* lines 339-343
OnDispatch(st, d, node_role) ==
    LET task_id == GetStr(d.taskId)
    IN IF Truthy(task_id)
       THEN OnTree(st, update_status(st.tree, task_id, "assigned", ParentField(d),
                                     node_role))
       ELSE Ok(st)

\* lines 346-355
OnDecomposition(st, ev, d) ==
    LET parent_task_id == Or(GetNone(d.parentTaskId), GetNone(ev.taskId))
    IN IF Truthy(parent_task_id)
       THEN OnTree(st, update_status(st.tree, Str(parent_task_id), "running",
                                     infer_parent_id(Str(parent_task_id)), "subplanner"))
       ELSE Ok(st)

\* lines 357-365 and 367-377
OnSubtask(st, d, status, role) ==
    LET subtask_id == GetStr(d.subtaskId)
        parent_id == Or(ParentField(d), infer_parent_id(Str(subtask_id)))
    IN IF Truthy(subtask_id)
       THEN OnTree(st, update_status(st.tree, Str(subtask_id), status, parent_id, role))
       ELSE Ok(st)

\* a faulty variant of OnMergeResult: a merge brings the activity tab forward
OnMergeResult_ShowsActivity(st, d, ts) ==
    Ok(feed([st EXCEPT !.merge_merged = @ + 1, !.active_tab = "activity"], ts,
            <<"  >> merged  ">> \o Slice(GetStr(d.branch), 30), "green"))

\* lines 380-391
OnMergeResult(st, d, ts) ==
    LET branch == GetStr(d.branch)
    IN IF ~Sliceable(branch) THEN Raise(st)
       ELSE IF d.status = "merged"
       THEN Ok(feed([st EXCEPT !.merge_merged = @ + 1], ts,
                    <<"  >> merged  ">> \o Slice(branch, 30), "green"))
       ELSE IF d.status = "conflict"
       THEN Ok(feed([st EXCEPT !.merge_conflicts = @ + 1], ts,
                    <<"  !! conflict  ">> \o Slice(branch, 30), "yellow"))
       ELSE Ok(feed([st EXCEPT !.merge_failed = @ + 1], ts,
                    <<"  xx merge fail  ">> \o Slice(branch, 30), "red"))

\* lines 394-399
OnIteration(st, d, ts) ==
    LET s1 == [st EXCEPT
                 !.iteration = GetNum(d.iteration, @),
                 !.active_workers = GetNum(d.activeWorkers, @),
                 !.completed_tasks = GetNum(d.completedTasks, @)]
    IN Ok(feed(s1, ts, <<"  -- iteration ", ToString(s1.iteration), "  (",
                         ToString(GetNum(d.tasks, 0)), " tasks)">>, "blue"))

\* lines 402-404
OnReconciler(st, d, ts) ==
    Ok(feed(st, ts, <<"  reconciler  ", ToString(GetNum(d.count, 0)), " fix tasks">>,
            "yellow"))

\* lines 406-409
OnSweep(st, d, ts) ==
    LET ok == d.buildOk /\ d.testsOk
    IN Ok(feed(st, ts, <<"  sweep: ", IF ok THEN "all green" ELSE "NEEDS FIX">>,
               IF ok THEN "green" ELSE "red"))

\* lines 412-421
OnWorkerTimeout(st, d, node_role, ts) ==
    LET tid == GetStr(d.taskId)
        r == IF Truthy(tid)
             THEN OnTree(st, update_status(st.tree, tid, "failed", ParentField(d),
                                           node_role))
             ELSE Ok(st)
    IN IF r.raised THEN r
       ELSE Ok(feed(r.t, ts, <<"  TIMEOUT  ">> \o Str(tid), "bold red"))

\* lines 423-424: any other message
\* a faulty variant of OnOther: logs the event whatever its level
OnOther_AnyLevel(st, msg, level, ts) ==
    IF ~Sliceable(msg) THEN Raise(st)
    ELSE Ok(feed(st, ts, <<"  ERR  ">> \o Slice(msg, 60), "bold red"))

OnOther(st, msg, level, ts) ==
    IF level = <<"error">>
    THEN IF ~Sliceable(msg) THEN Raise(st)
         ELSE Ok(feed(st, ts, <<"  ERR  ">> \o Slice(msg, 60), "bold red"))
    ELSE Ok(st)

RecognizedMessages ==
    {<<"Metrics">>, <<"Task status">>, <<"Task created">>, <<"Task completed">>,
     <<"Dispatching task to ephemeral sandbox">>,
     <<"Calling LLM for task decomposition">>,
     <<"Subtask still complex - recursing">>, <<"Subtask completed by worker">>,
     <<"Merge result">>, <<"Iteration complete">>, <<"Reconciler created fix tasks">>,
     <<"Sweep check results">>, <<"Worker timed out">>}

\* lines 301-424: the handler chosen by the message
Dispatch(st, ev, d) ==
    LET msg == GetStr(ev.message)
        level == IF ev.level = ABSENT THEN <<"info">> ELSE ev.level
        node_role == event_node_role(ev.agentRole)
        ts == TsStr(ev)
    IN CASE msg = <<"Metrics">> -> OnMetrics(st, d)
         [] msg = <<"Task status">> -> OnTaskStatus(st, d, node_role)
         [] msg = <<"Task created">> -> OnTaskCreated(st, d, node_role, ts)
         [] msg = <<"Task completed">> -> OnTaskCompleted(st, d, node_role, ts)
         [] msg = <<"Dispatching task to ephemeral sandbox">> -> OnDispatch(st, d, node_role)
         [] msg = <<"Calling LLM for task decomposition">> -> OnDecomposition(st, ev, d)
         [] msg = <<"Subtask still complex - recursing">> ->
                OnSubtask(st, d, "running", "subplanner")
         [] msg = <<"Subtask completed by worker">> ->
                OnSubtask(st, d, FinalStatus(d.status), "None")
         [] msg = <<"Merge result">> -> OnMergeResult(st, d, ts)
         [] msg = <<"Iteration complete">> -> OnIteration(st, d, ts)
         [] msg = <<"Reconciler created fix tasks">> -> OnReconciler(st, d, ts)
         [] msg = <<"Sweep check results">> -> OnSweep(st, d, ts)
         [] msg = <<"Worker timed out">> -> OnWorkerTimeout(st, d, node_role, ts)
         [] OTHER -> OnOther(st, msg, level, ts)

\* lines 278-287: reading the fields raises on a line that is no object, on a
\* time stamp that is no number and on a data field that is no object
HeaderRaises(ev) == ~ev.obj \/ ev.timestamp = "string" \/ ev.data_kind = "string"

\* line 279: event.get("data") or {}
EventD(ev) == IF ev.data_kind = "object" THEN ev.d ELSE NoData

ingest(st, ev) ==
    IF HeaderRaises(ev) THEN Raise(st)
    ELSE LET d == IF ev.data_kind = "object" THEN ev.d ELSE NoData
             r == IngestTaskId(st, ev, d)
         IN IF r.raised THEN r ELSE Dispatch(r.t, ev, d)

------------------------------------------------------------------------------
(* The calls made on the planner tree *)

\* the record of a call: ev is the event of an ingest, arg and name are the
\* number and the name given to a UI command, prev are the events of the
\* ingest calls before this one where a run keeps them
NoCall ==
    [op |-> "init", node_id |-> NONE, parent_id |-> NONE, role |-> "None",
     status |-> "", raised |-> FALSE, ev |-> NoEvent, arg |-> 0, name |-> "",
     prev |-> <<>>]

\* ids: the empty string, the root, "a", "a-sub-1", "b"
NodeIds == {<<>>, ROOT_ID, <<"a">>, <<"a", SUB, "1">>, <<"b">>}

ParentIds == {NONE} \cup NodeIds

Roles == {"None", "worker"}

Statuses == {"running", "complete"}

\* main, lines 1161-1188: the queue is empty, the producer thread of the chosen
\* mode is started, the loop is about to poll the keys; put is the history of
\* what the producer enqueued in its except and finally clauses
Process(mode) ==
    [mode |-> mode, prod |-> "reading", failed |-> FALSE, nread |-> 0,
     queue |-> <<>>, put |-> <<>>,
     pc |-> "poll", running |-> TRUE, stream_ended |-> FALSE, batch |-> 0,
     interrupted |-> FALSE]

\* the threads that call the methods of the DashboardState
Threads == {1, 2}

\* a thread: where it is in its call (idle, wait for the lock, header and
\* handler of ingest, body of another method, release), the call, and the
\* snapshot its last snap() returned (shown says whether there is one)
IdleThread ==
    [pc |-> "idle", op |-> "", ev |-> NoEvent, arg |-> 0,
     shown |-> FALSE, result |-> DashboardState]

\* line 198: the RLock, owner 0 when it is free; lin is the dashboard the
\* calls that have returned make when applied one after the other
Unlocked == [owner |-> 0, th |-> [t \in Threads |-> IdleThread], lin |-> DashboardState]

\* lines 1062-1065: a KeyPoller; avail are the bytes waiting on the terminal,
\* token is what the last poll returned, arrived and polls count the chunks
\* of bytes that came in and the calls of poll; width is the width of the
\* terminal; in_loop says that the key loop of main is at work, and queued
\* how many of the bytes that waited when it began are still unread
KeyPoller(enabled) ==
    [enabled |-> enabled, avail |-> <<>>, token |-> <<>>, arrived |-> 0, polls |-> 0,
     width |-> 80, in_loop |-> FALSE, queued |-> 0]

\* the coroutines that call run_task
Runs == {1, 2}

\* a coroutine that is not in run_task; info is the local variable of
\* run_task (0 for None), registered the ids the call put in active_sandboxes
IdleRun == [pc |-> "idle", info |-> 0, sandbox_id |-> 0, registered |-> {},
            handoff |-> "none"]

\* spawn_sandbox.py, lines 57-72: a SandboxManager; uuids counts the ids
\* drawn, terminated holds the ids whose sandbox.terminate() was called
SandboxManager ==
    [active_sandboxes |-> {}, terminated |-> {}, uuids |-> 0,
     co |-> [c \in Runs |-> IdleRun]]

Init ==
    /\ state = DashboardState
    /\ last = NoCall
    /\ calls = 0
    /\ run = Process("stdin")
    /\ tty = KeyPoller(FALSE)
    /\ sync = Unlocked
    /\ manager = SandboxManager

EnsureCall(node_id, parent_id, role) ==
    /\ calls < MaxCalls
    /\ LET r == ensure(state.tree, node_id, parent_id, role)
       IN /\ state' = [state EXCEPT !.tree = r.t]
          /\ last' = [NoCall EXCEPT !.op = "ensure", !.node_id = node_id,
                         !.parent_id = parent_id, !.role = role,
                         !.raised = r.raised]
    /\ calls' = calls + 1
    /\ UNCHANGED <<run, tty, sync, manager>>

UpdateStatusCall(node_id, status, parent_id, role) ==
    /\ calls < MaxCalls
    /\ LET r == update_status(state.tree, node_id, status, parent_id, role)
       IN /\ state' = [state EXCEPT !.tree = r.t]
          /\ last' = [NoCall EXCEPT !.op = "update_status", !.node_id = node_id,
                         !.parent_id = parent_id, !.role = role,
                         !.status = status, !.raised = r.raised]
    /\ calls' = calls + 1
    /\ UNCHANGED <<run, tty, sync, manager>>

\* the arguments of the ensure calls: every known id under every parent, the
\* role given with the parent omitted or given, and the empty id
EnsureArgs ==
    ((NodeIds \ {<<>>}) \X ParentIds \X {"None"})
    \cup ((NodeIds \ {<<>>}) \X {NONE, <<"a">>} \X {"worker"})
    \cup {<<(<<>>), NONE, "None">>, <<(<<>>), <<"a">>, "worker">>}

Next ==
    \/ \E a \in EnsureArgs : EnsureCall(a[1], a[2], a[3])
    \/ \E n \in NodeIds \ {<<>>}, s \in Statuses : UpdateStatusCall(n, s, NONE, "None")

Spec == Init /\ [][Next]_vars

\* the calls that build and rebuild the parent links: every id under every
\* parent, itself and its own descendants included, and the statuses that end
\* the walk of calc
WalkNext ==
    \/ \E node_id \in NodeIds \ {<<>>, ROOT_ID}, parent_id \in ParentIds :
          EnsureCall(node_id, parent_id, "None")
    \/ \E node_id \in {<<"a">>, <<"b">>}, status \in Statuses :
          UpdateStatusCall(node_id, status, NONE, "None")

WalkSpec == Init /\ [][WalkNext]_vars

------------------------------------------------------------------------------
(* The calls made on the engine: ingest, the UI commands, snap *)

A == <<"a">>

A1 == <<"a", SUB, "1">>

B == <<"b">>

WithData(message, d) == [Event(message) EXCEPT !.d = d]

TaskStatus(id, to) == WithData(<<"Task status">>, [NoData EXCEPT !.taskId = id, !.to = to])

TaskEvents ==
    {TaskStatus(id, to) : id \in {A, A1}, to \in {"running", "complete"}}
    \cup {WithData(<<"Task status">>, [NoData EXCEPT !.taskId = A, !.to = "running", !.parentId = B]),
          WithData(<<"Task status">>, [NoData EXCEPT !.taskId = A, !.to = "running", !.parentTaskId = <<>>]),
          TaskStatus(NUM, "running"),
          [TaskStatus(B, "assigned") EXCEPT !.agentRole = <<"worker">>],
          [WithData(<<"Task created">>, [NoData EXCEPT !.taskId = A, !.desc = <<"d">>])
              EXCEPT !.timestamp = "number"],
          WithData(<<"Task created">>, [NoData EXCEPT !.taskId = B, !.desc = NONE]),
          WithData(<<"Task completed">>, [NoData EXCEPT !.taskId = A, !.status = "complete"]),
          WithData(<<"Task completed">>, [NoData EXCEPT !.taskId = A1, !.status = "failed"]),
          WithData(<<"Dispatching task to ephemeral sandbox">>, [NoData EXCEPT !.taskId = A]),
          WithData(<<"Calling LLM for task decomposition">>, [NoData EXCEPT !.parentTaskId = A1]),
          WithData(<<"Subtask still complex - recursing">>, [NoData EXCEPT !.subtaskId = A1, !.parentId = B]),
          WithData(<<"Subtask completed by worker">>, [NoData EXCEPT !.subtaskId = A1, !.status = "complete"]),
          WithData(<<"Worker timed out">>, [NoData EXCEPT !.taskId = A])}

FullMetrics ==
    WithData(<<"Metrics">>, [NoData EXCEPT
        !.activeWorkers = <<3>>, !.pendingTasks = <<4>>, !.completedTasks = <<5>>,
        !.failedTasks = <<1>>, !.commitsPerHour = <<7>>, !.mergeSuccessRate = <<1>>,
        !.totalTokensUsed = <<9>>])

MergeResult(status, branch) ==
    WithData(<<"Merge result">>, [NoData EXCEPT !.status = status, !.branch = branch])

CounterEvents ==
    {MergeResult(st, <<"f">>) : st \in {"merged", "conflict", "failed"}}
    \cup {MergeResult("merged", NONE),
          FullMetrics,
          WithData(<<"Metrics">>, [NoData EXCEPT !.activeWorkers = <<2>>]),
          WithData(<<"Iteration complete">>, [NoData EXCEPT
              !.iteration = <<1>>, !.tasks = <<2>>, !.activeWorkers = <<1>>,
              !.completedTasks = <<2>>]),
          WithData(<<"Iteration complete">>, [NoData EXCEPT !.completedTasks = <<6>>]),
          WithData(<<"Reconciler created fix tasks">>, [NoData EXCEPT !.count = <<2>>]),
          WithData(<<"Sweep check results">>, [NoData EXCEPT !.buildOk = TRUE, !.testsOk = TRUE])}

\* events whose message no handler recognizes
OtherEvents ==
    {Event(<<"Heartbeat">>),
     [Event(<<"Heartbeat">>) EXCEPT !.level = <<"error">>],
     WithData(<<"Heartbeat">>, [NoData EXCEPT !.taskId = B]),
     [WithData(<<"Heartbeat">>, [NoData EXCEPT !.taskId = A1, !.parentId = B])
         EXCEPT !.level = <<"error">>, !.agentRole = <<"worker">>],
     [Event(NUM) EXCEPT !.level = <<"error">>]}

\* lines that are valid JSON and not the object the schema describes
MalformedEvents ==
    {[NoEvent EXCEPT !.obj = FALSE],
     [Event(<<"Heartbeat">>) EXCEPT !.data_kind = "string"],
     [Event(<<"Heartbeat">>) EXCEPT !.timestamp = "string"],
     WithData(<<"Heartbeat">>, [NoData EXCEPT !.taskId = A, !.parentId = LIST]),
     WithData(<<"Heartbeat">>, [NoData EXCEPT !.taskId = A, !.parentId = NUM])}

Events == TaskEvents \cup CounterEvents \cup OtherEvents \cup MalformedEvents

Ingest(ev) ==
    /\ calls < MaxCalls
    /\ LET r == ingest(state, ev)
       IN /\ state' = r.t
          /\ last' = [NoCall EXCEPT !.op = "ingest", !.ev = ev, !.raised = r.raised]
    /\ calls' = calls + 1
    /\ UNCHANGED <<run, tty, sync, manager>>

AdjustVisibleLevels(delta) ==
    /\ calls < MaxCalls
    /\ state' = adjust_visible_levels(state, delta)
    /\ last' = [NoCall EXCEPT !.op = "adjust_visible_levels", !.arg = delta]
    /\ calls' = calls + 1
    /\ UNCHANGED <<run, tty, sync, manager>>

SwitchTab(direction) ==
    /\ calls < MaxCalls
    /\ state' = switch_tab(state, direction)
    /\ last' = [NoCall EXCEPT !.op = "switch_tab", !.arg = direction]
    /\ calls' = calls + 1
    /\ UNCHANGED <<run, tty, sync, manager>>

SetTab(tab) ==
    /\ calls < MaxCalls
    /\ state' = set_tab(state, tab)
    /\ last' = [NoCall EXCEPT !.op = "set_tab", !.name = tab]
    /\ calls' = calls + 1
    /\ UNCHANGED <<run, tty, sync, manager>>

AdjustTreeScroll(pane, delta) ==
    /\ calls < MaxCalls
    /\ state' = adjust_tree_scroll(state, pane, delta)
    /\ last' = [NoCall EXCEPT !.op = "adjust_tree_scroll", !.name = pane, !.arg = delta]
    /\ calls' = calls + 1
    /\ UNCHANGED <<run, tty, sync, manager>>

SnapCall ==
    /\ calls < MaxCalls
    /\ state' = snap(state)
    /\ last' = [NoCall EXCEPT !.op = "snap"]
    /\ calls' = calls + 1
    /\ UNCHANGED <<run, tty, sync, manager>>

\* the events ingested between the UI commands
EngineEvents ==
    {TaskStatus(A1, "running"), TaskStatus(A1, "complete"), TaskStatus(A, "complete"),
     WithData(<<"Task status">>, [NoData EXCEPT !.taskId = A, !.to = "running", !.parentId = B]),
     MergeResult("merged", <<"f">>), FullMetrics,
     [Event(<<"Heartbeat">>) EXCEPT !.level = <<"error">>],
     [NoEvent EXCEPT !.obj = FALSE]}

EngineNext ==
    \/ \E ev \in EngineEvents : Ingest(ev)
    \/ \E delta \in {1, -1} : AdjustVisibleLevels(delta)
    \/ \E direction \in {1, -1} : SwitchTab(direction)
    \/ \E tab \in {"grid", "activity", "help"} : SetTab(tab)
    \/ \E pane \in {"in_progress", "completed", "footer"}, delta \in {2, -2} :
          AdjustTreeScroll(pane, delta)
    \/ SnapCall

EngineSpec == Init /\ [][EngineNext]_vars

IngestNext == \E ev \in Events : Ingest(ev)

IngestSpec == Init /\ [][IngestNext]_vars

------------------------------------------------------------------------------
(* Runs of ingest on a dashboard whose activity log is full or nearly full *)

TaskCreated(id) == WithData(<<"Task created">>, [NoData EXCEPT !.taskId = id, !.desc = <<"d">>])

\* how many entries short of MAX_ACTIVITY a run may start
MaxShort == 2

Iteration(n) == WithData(<<"Iteration complete">>, [NoData EXCEPT !.iteration = <<n>>])

\* the dashboard after "Iteration complete" was ingested for the iterations
\* 1 to n: its log holds one entry for each of them, each with its number
\* st is the dashboard after the iterations 1 to k - 1, its counter says so
RECURSIVE FilledFrom(_, _, _)
FilledFrom(st, k, n) ==
    IF k <= n /\ st.iteration = k - 1
    THEN FilledFrom(ingest(st, Iteration(k)).t, k + 1, n)
    ELSE st

Filled(n) == FilledFrom(DashboardState, 1, n)

FeedEvents ==
    {Iteration(MAX_ACTIVITY + 1), MergeResult("merged", <<"f">>), TaskCreated(A),
     WithData(<<"Reconciler created fix tasks">>, [NoData EXCEPT !.count = <<2>>]),
     [Event(<<"Heartbeat">>) EXCEPT !.level = <<"error">>],
     Event(<<"Heartbeat">>), FullMetrics}

FeedInit ==
    /\ state \in {Filled(n) : n \in (MAX_ACTIVITY - MaxShort)..MAX_ACTIVITY}
    /\ last = NoCall
    /\ calls = 0
    /\ run = Process("stdin")
    /\ tty = KeyPoller(FALSE)
    /\ sync = Unlocked
    /\ manager = SandboxManager

FeedNext == \E ev \in FeedEvents : Ingest(ev)

FeedSpec == FeedInit /\ [][FeedNext]_vars

------------------------------------------------------------------------------
(* Runs of ingest that keep the events of the two calls before the last one *)

MaxTrace == 4

A12 == <<"a", SUB, "1", SUB, "2">>

\* the id "-sub-1": what stands before its suffix is the empty string
Sub1 == <<SUB, "1">>

TaskCompleted(id, status) ==
    WithData(<<"Task completed">>, [NoData EXCEPT !.taskId = id, !.status = status])

Heartbeat(id) == WithData(<<"Heartbeat">>, [NoData EXCEPT !.taskId = id])

\* the life of the tasks "a" and "b", and what may have come before it: an
\* explicit parent, ids with -sub- suffixes, the root planner completing
TraceEvents ==
    {TaskCreated(id) : id \in {A, B}}
    \cup {TaskStatus(id, "running") : id \in {A, B, A1}}
    \cup {TaskCompleted(id, "complete") : id \in {A, B}}
    \cup {WithData(<<"Task status">>, [NoData EXCEPT !.taskId = A, !.to = "running", !.parentId = B]),
          WithData(<<"Task status">>, [NoData EXCEPT !.taskId = A1, !.to = "running", !.parentId = B]),
          TaskStatus(ROOT_ID, "complete"),
          Heartbeat(A12), Heartbeat(Sub1)}

\* the events of the last two calls
LastTwo(evs) == IF Len(evs) <= 2 THEN evs ELSE SubSeq(evs, Len(evs) - 1, Len(evs))

IngestTraced(ev) ==
    /\ calls < MaxTrace
    /\ LET r == ingest(state, ev)
       IN /\ state' = r.t
          /\ last' = [NoCall EXCEPT !.op = "ingest", !.ev = ev, !.raised = r.raised,
                         !.prev = IF last.op = "ingest"
                                  THEN LastTwo(Append(last.prev, last.ev)) ELSE <<>>]
    /\ calls' = calls + 1
    /\ UNCHANGED <<run, tty, sync, manager>>

TraceNext == \E ev \in TraceEvents : IngestTraced(ev)

TraceSpec == Init /\ [][TraceNext]_vars

------------------------------------------------------------------------------
(* The producer thread, the event queue and the render loop of main *)

MaxLines == 2

MaxKeys == 1

\* line 1245: the events drained per tick
BatchCap == 200

\* the items of the queue: a parsed line, or None, the end-of-stream sentinel
Item(ev) == [none |-> FALSE, ev |-> ev]

Sentinel == [none |-> TRUE, ev |-> NoEvent]

\* a line of the source: blank, text that is no JSON, the JSON null, or a
\* JSON value (ev, which says whether the value is an object)
Line(kind, ev) == [kind |-> kind, ev |-> ev]

Lines ==
    {Line("blank", NoEvent), Line("invalid", NoEvent), Line("null", NoEvent)}
    \cup {Line("value", ev) :
            ev \in {TaskStatus(A1, "running"), TaskStatus(NUM, "running"),
                    [Event(<<"Heartbeat">>) EXCEPT !.level = <<"error">>],
                    [NoEvent EXCEPT !.obj = FALSE]}}

\* json.loads(line): JSONDecodeError on text that is no JSON, None for null
json_loads(line) ==
    [raised |-> line.kind \in {"blank", "invalid"},
     item |-> IF line.kind = "null" THEN Sentinel ELSE Item(line.ev)]

\* lines 862-865: the event reader_subprocess makes of an exception
ProcessError ==
    [Event(<<"Process error">>) EXCEPT !.level = <<"error">>, !.timestamp = "number"]

\* a queue that hands out the newest item first
Enqueue_Front(r, item) == [r EXCEPT !.queue = <<item>> \o @]

\* q.put(item)
Enqueue(r, item) == [r EXCEPT !.queue = Append(@, item)]

\* q.put(item) in an except or finally clause, noted in put
EnqueueLeaving(r, item) == [r EXCEPT !.queue = Append(@, item), !.put = Append(@, item)]

\* one turn of `for line in ...`: blank lines and lines that are no JSON are
\* passed over, every other line is enqueued as parsed
ReadLine(line) ==
    /\ run.prod = "reading"
    /\ run.nread < MaxLines
    /\ LET r == json_loads(line)
           counted == [run EXCEPT !.nread = @ + 1]
       IN run' = IF line.kind = "blank" \/ r.raised THEN counted
                 ELSE Enqueue(counted, r.item)
    /\ UNCHANGED <<state, last, calls, tty, sync, manager>>

\* starting the process or reading the source raises: reader_subprocess
\* enqueues the error event (except Exception), reader_stdin has no except
\* clause and goes to its finally clause
ReadFails ==
    /\ run.prod = "reading"
    /\ LET r == [run EXCEPT !.prod = "finally", !.failed = TRUE]
       IN run' = IF run.mode = "subprocess" THEN EnqueueLeaving(r, Item(ProcessError)) ELSE r
    /\ UNCHANGED <<state, last, calls, tty, sync, manager>>

\* the source ends
EndOfInput ==
    /\ run.prod = "reading"
    /\ run' = [run EXCEPT !.prod = "finally"]
    /\ UNCHANGED <<state, last, calls, tty, sync, manager>>

\* finally: q.put(None)
PutSentinel ==
    /\ run.prod = "finally"
    /\ run' = EnqueueLeaving([run EXCEPT !.prod = "done"], Sentinel)
    /\ UNCHANGED <<state, last, calls, tty, sync, manager>>

Keys == {"+", "-", "TAB", "s", "x"}

\* lines 1191-1240: the command a key stands for
on_key(st, key) ==
    CASE key = "+" -> adjust_visible_levels(st, 1)
      [] key = "-" -> adjust_visible_levels(st, -1)
      [] key = "TAB" -> switch_tab(st, 1)
      [] key = "s" -> LET cur == snap(st)
                      IN IF cur.active_tab = "grid"
                         THEN adjust_tree_scroll(cur, "in_progress", 2)
                         ELSE cur
      [] OTHER -> st

InLoop == run.pc \in {"poll", "drain", "render", "sleep"}

\* lines 1190-1241: poll() gave a key
PollKey(key) ==
    /\ run.pc = "poll"
    /\ calls < MaxKeys
    /\ state' = on_key(state, key)
    /\ calls' = calls + 1
    /\ UNCHANGED <<last, run, tty, sync, manager>>

\* poll() gave nothing: on to the drain loop
PollNone ==
    /\ run.pc = "poll"
    /\ run' = [run EXCEPT !.pc = "drain", !.batch = 0]
    /\ UNCHANGED <<state, last, calls, tty, sync, manager>>

\* a drain loop that has no cap on its batch
DrainIngest_NoCap ==
    /\ run.pc = "drain"
    /\ ~run.stream_ended
    /\ run.queue # <<>> /\ ~Head(run.queue).none
    /\ LET r == ingest(state, Head(run.queue).ev)
       IN /\ state' = r.t
          /\ run' = IF r.raised
                    THEN [run EXCEPT !.queue = Tail(@), !.pc = "crashed"]
                    ELSE [run EXCEPT !.queue = Tail(@), !.batch = @ + 1]
    /\ UNCHANGED <<last, calls, tty, sync, manager>>

\* lines 1244-1254: an event is dequeued and ingested; an exception of ingest
\* is caught nowhere in main and ends the process
DrainIngest ==
    /\ run.pc = "drain"
    /\ ~run.stream_ended /\ run.batch < BatchCap
    /\ run.queue # <<>> /\ ~Head(run.queue).none
    /\ LET r == ingest(state, Head(run.queue).ev)
       IN /\ state' = r.t
          /\ run' = IF r.raised
                    THEN [run EXCEPT !.queue = Tail(@), !.pc = "crashed"]
                    ELSE [run EXCEPT !.queue = Tail(@), !.batch = @ + 1]
    /\ UNCHANGED <<last, calls, tty, sync, manager>>

\* lines 1247-1250: None is dequeued
DrainSentinel ==
    /\ run.pc = "drain"
    /\ ~run.stream_ended /\ run.batch < BatchCap
    /\ run.queue # <<>> /\ Head(run.queue).none
    /\ run' = [run EXCEPT !.queue = Tail(@), !.stream_ended = TRUE, !.pc = "render"]
    /\ UNCHANGED <<state, last, calls, tty, sync, manager>>

\* the drain loop ends: stream ended, batch full, or queue.Empty
DrainDone ==
    /\ run.pc = "drain"
    /\ run.stream_ended \/ run.batch >= BatchCap \/ run.queue = <<>>
    /\ run' = [run EXCEPT !.pc = "render"]
    /\ UNCHANGED <<state, last, calls, tty, sync, manager>>

\* lines 1256-1267
Render ==
    /\ run.pc = "render"
    /\ state' = snap(state)
    /\ run' = [run EXCEPT !.pc = "sleep"]
    /\ UNCHANGED <<last, calls, tty, sync, manager>>

\* lines 1269 and 1189: sleep, then `while running`
Sleep ==
    /\ run.pc = "sleep"
    /\ run' = [run EXCEPT !.pc = IF run.running THEN "poll" ELSE "summary"]
    /\ UNCHANGED <<state, last, calls, tty, sync, manager>>

\* lines 1271-1272: KeyboardInterrupt
Interrupt ==
    /\ InLoop
    /\ run' = [run EXCEPT !.pc = "summary", !.interrupted = TRUE]
    /\ UNCHANGED <<state, last, calls, tty, sync, manager>>

\* lines 1274-1286: the final summary
Summary ==
    /\ run.pc = "summary"
    /\ state' = snap(state)
    /\ run' = [run EXCEPT !.pc = "exited"]
    /\ UNCHANGED <<last, calls, tty, sync, manager>>

LoopInit ==
    /\ state = DashboardState
    /\ last = NoCall
    /\ calls = 0
    /\ run \in {Process(mode) : mode \in {"stdin", "subprocess"}}
    /\ tty = KeyPoller(FALSE)
    /\ sync = Unlocked
    /\ manager = SandboxManager

LoopNext ==
    \/ \E line \in Lines : ReadLine(line)
    \/ ReadFails
    \/ EndOfInput
    \/ PutSentinel
    \/ \E key \in Keys : PollKey(key)
    \/ PollNone
    \/ DrainIngest
    \/ DrainSentinel
    \/ DrainDone
    \/ Render
    \/ Sleep
    \/ Interrupt
    \/ Summary

LoopSpec == LoopInit /\ [][LoopNext]_vars

\* what a step of the main thread can make of run: the control part of
\* PollNone, DrainIngest (either outcome of ingest), DrainSentinel, DrainDone,
\* Render, Sleep and Summary
MainThreadSteps(r) ==
    CASE r.pc = "poll" -> {[r EXCEPT !.pc = "drain", !.batch = 0]}
      [] r.pc = "drain" ->
            IF r.stream_ended \/ r.batch >= BatchCap \/ r.queue = <<>>
            THEN {[r EXCEPT !.pc = "render"]}
            ELSE IF Head(r.queue).none
            THEN {[r EXCEPT !.queue = Tail(@), !.stream_ended = TRUE, !.pc = "render"]}
            ELSE {[r EXCEPT !.queue = Tail(@), !.pc = "crashed"],
                  [r EXCEPT !.queue = Tail(@), !.batch = @ + 1]}
      [] r.pc = "render" -> {[r EXCEPT !.pc = "sleep"]}
      [] r.pc = "sleep" -> {[r EXCEPT !.pc = IF r.running THEN "poll" ELSE "summary"]}
      [] r.pc = "summary" -> {[r EXCEPT !.pc = "exited"]}
      [] OTHER -> {}

MainThread == run' \in MainThreadSteps(run)

LoopStep ==
    PollNone \/ DrainIngest \/ DrainSentinel \/ DrainDone \/ Render \/ Sleep \/ Summary

\* the steps of LoopNext that are steps of MainThread are the steps of the
\* main thread, and no others
MainThreadIsLoopStep == [][MainThread <=> LoopStep]_vars

\* the main thread keeps taking its steps and a finally clause is run; that a
\* key is pressed, a line arrives or an interrupt is sent is up to the world
FairLoopSpec ==
    LoopInit /\ [][LoopNext]_vars /\ WF_run(MainThread) /\ WF_vars(PutSentinel)

------------------------------------------------------------------------------
(* Calls of the methods of the DashboardState from concurrent threads *)

\* lines 278-298 of ingest: the fields are read and the task id registered
ingest_header(st, ev) ==
    IF HeaderRaises(ev) THEN Raise(st) ELSE IngestTaskId(st, ev, EventD(ev))

\* lines 300-424 of ingest: the handler of the message
ingest_handler(st, ev) == Dispatch(st, ev, EventD(ev))

\* a lock that lets every thread in
CanAcquire_NoLock(owner, t) == TRUE

\* `with self._lock` (lines 245, 250, 256, 261, 277, 432): the RLock is free
\* or held by the thread itself
CanAcquire(owner, t) == owner \in {0, t}

\* the calls the threads make
LockCalls ==
    {[IdleThread EXCEPT !.op = "ingest", !.ev = ev] :
        ev \in {TaskStatus(A1, "running"), TaskCreated(A),
                WithData(<<"Task created">>, [NoData EXCEPT !.taskId = B, !.desc = NONE]),
                MergeResult("merged", <<"f">>)}}
    \cup {[IdleThread EXCEPT !.op = "snap"]}
    \cup {[IdleThread EXCEPT !.op = "adjust_visible_levels", !.arg = delta] : delta \in {1, -1}}
    \cup {[IdleThread EXCEPT !.op = "switch_tab", !.arg = 1]}

\* the dashboard after the whole call c
Applied(c, st) ==
    CASE c.op = "ingest" -> ingest(st, c.ev).t
      [] c.op = "snap" -> snap(st)
      [] c.op = "adjust_visible_levels" -> adjust_visible_levels(st, c.arg)
      [] c.op = "switch_tab" -> switch_tab(st, c.arg)
      [] OTHER -> st

\* the thread t calls a method
CallMethod(t, c) ==
    /\ calls < MaxCalls
    /\ sync.th[t].pc = "idle"
    /\ sync' = [sync EXCEPT !.th[t] =
                    [c EXCEPT !.pc = "wait", !.shown = sync.th[t].shown,
                              !.result = sync.th[t].result]]
    /\ calls' = calls + 1
    /\ UNCHANGED <<state, last, run, tty, manager>>

\* with self._lock: the thread enters when the lock lets it
Acquire(t) ==
    /\ sync.th[t].pc = "wait"
    /\ CanAcquire(sync.owner, t)
    /\ sync' = [sync EXCEPT !.owner = t,
                            !.th[t].pc = IF sync.th[t].op = "ingest" THEN "header" ELSE "body"]
    /\ UNCHANGED <<state, last, calls, run, tty, manager>>

IngestHeader(t) ==
    /\ sync.th[t].pc = "header"
    /\ LET r == ingest_header(state, sync.th[t].ev)
       IN /\ state' = r.t
          /\ sync' = [sync EXCEPT !.th[t].pc = IF r.raised THEN "release" ELSE "handler"]
    /\ UNCHANGED <<last, calls, run, tty, manager>>

IngestHandler(t) ==
    /\ sync.th[t].pc = "handler"
    /\ state' = ingest_handler(state, sync.th[t].ev).t
    /\ sync' = [sync EXCEPT !.th[t].pc = "release"]
    /\ UNCHANGED <<last, calls, run, tty, manager>>

\* the body of snap() and of the UI commands
MethodBody(t) ==
    /\ sync.th[t].pc = "body"
    /\ state' = Applied(sync.th[t], state)
    /\ sync' = IF sync.th[t].op = "snap"
               THEN [sync EXCEPT !.th[t].pc = "release", !.th[t].shown = TRUE,
                                 !.th[t].result = state']
               ELSE [sync EXCEPT !.th[t].pc = "release"]
    /\ UNCHANGED <<last, calls, run, tty, manager>>

\* the end of the with block, by return or by an exception
Release(t) ==
    /\ sync.th[t].pc = "release"
    /\ sync' = [sync EXCEPT !.owner = 0, !.th[t].pc = "idle",
                            !.lin = Applied(sync.th[t], @)]
    /\ UNCHANGED <<state, last, calls, run, tty, manager>>

LockNext ==
    \E t \in Threads :
        \/ \E c \in LockCalls : CallMethod(t, c)
        \/ Acquire(t)
        \/ IngestHeader(t)
        \/ IngestHandler(t)
        \/ MethodBody(t)
        \/ Release(t)

LockSpec == Init /\ [][LockNext]_vars

------------------------------------------------------------------------------
(* The loop of main when the producer has sent a burst of events *)

\* the k-th line the producer reads is the event "Iteration complete" of the
\* iteration k: the events are numbered in the order they are enqueued
Burst(n) == [k \in 1..n |-> Item(Iteration(k))]

\* the producer has enqueued a burst before the loop of main drains it for
\* the first time: one event less than the cap of a batch, as many, one more
BurstInit ==
    /\ state = DashboardState
    /\ last = NoCall
    /\ calls = 0
    /\ run \in {[Process("subprocess") EXCEPT !.queue = Burst(n)] :
                  n \in (BatchCap - 1)..(BatchCap + 1)}
    /\ tty = KeyPoller(FALSE)
    /\ sync = Unlocked
    /\ manager = SandboxManager

\* what the producer has enqueued so far: the events ingested (each sets the
\* iteration counter to its number) and the events that wait
Enqueued == state.iteration + Len(SelectSeq(run.queue, LAMBDA item : ~item.none))

\* the producer reads its next line
ReadNext == ReadLine(Line("value", Iteration(Enqueued + 1)))

\* no key is pressed while the burst is drained
BurstNext ==
    \/ ReadNext
    \/ EndOfInput
    \/ PutSentinel
    \/ PollNone
    \/ DrainIngest
    \/ DrainSentinel
    \/ DrainDone
    \/ Render
    \/ Sleep
    \/ Interrupt
    \/ Summary

BurstSpec == BurstInit /\ [][BurstNext]_vars

------------------------------------------------------------------------------
(* KeyPoller.poll (lines 1083-1144): bytes are numbers, the token returned is *)
(* a string, that is a sequence of one-character tokens and names            *)

ESC == 27

TAB == 9

\* the bytes of "[", "<", ";", "M", "m", "-", "+"
LBRACKET == 91

LESS == 60

SEMI == 59

UPPER_M == 77

LOWER_M == 109

MINUS == 45

PLUS == 43

\* the bytes of "0" and of "A"
ZERO == 48

UPPER_A == 65

DigitChars == <<"0", "1", "2", "3", "4", "5", "6", "7", "8", "9">>

IsDigit(b) == b >= ZERO /\ b <= ZERO + 9

\* seq.startswith(prefix)
StartsWith(seq, prefix) ==
    Len(seq) >= Len(prefix) /\ SubSeq(seq, 1, Len(prefix)) = prefix

\* seq.endswith(one byte)
EndsWith(seq, b) == Len(seq) >= 1 /\ seq[Len(seq)] = b

\* body.split(";")
RECURSIVE Split(_, _)
Split(body, sep) ==
    IF \A i \in 1..Len(body) : body[i] # sep THEN <<body>>
    ELSE LET k == CHOOSE i \in 1..Len(body) :
                    body[i] = sep /\ \A j \in 1..(i - 1) : body[j] # sep
         IN <<SubSeq(body, 1, k - 1)>> \o Split(SubSeq(body, k + 1, Len(body)), sep)

\* the number a string of digits stands for
RECURSIVE DigitsValue(_)
DigitsValue(ds) ==
    IF ds = <<>> THEN 0
    ELSE 10 * DigitsValue(SubSeq(ds, 1, Len(ds) - 1)) + (ds[Len(ds)] - ZERO)

\* int(part): an optional sign and at least one digit, ValueError otherwise
ParseInt(part) ==
    LET signed == part # <<>> /\ Head(part) \in {MINUS, PLUS}
        ds == IF signed THEN Tail(part) ELSE part
    IN IF ds = <<>> \/ \E i \in 1..Len(ds) : ~IsDigit(ds[i])
       THEN [ok |-> FALSE, val |-> 0]
       ELSE [ok |-> TRUE,
             val |-> IF signed /\ Head(part) = MINUS
                     THEN 0 - DigitsValue(ds) ELSE DigitsValue(ds)]

\* str(n) for n >= 0
RECURSIVE NatStr(_)
NatStr(n) ==
    IF n < 10 THEN <<DigitChars[n + 1]>>
    ELSE NatStr(n \div 10) \o <<DigitChars[(n % 10) + 1]>>

\* f"{n}"
IntStr(n) == IF n < 0 THEN <<"-">> \o NatStr(0 - n) ELSE NatStr(n)

\* f"{name}:{mx}:{my}"
WheelToken(name, mx, my) == <<name, ":">> \o IntStr(mx) \o <<":">> \o IntStr(my)

\* button & 64 and button & 1, also for a negative button
Bit6(b) == (b % 128) \div 64 = 1

Bit0(b) == b % 2 = 1

\* the classification of a button code: lines 1113-1120 and 1127-1130
Wheel(button, mx, my) ==
    IF button \in {64, 96} THEN WheelToken("MWHEEL_UP", mx, my)
    ELSE IF button \in {65, 97} THEN WheelToken("MWHEEL_DOWN", mx, my)
    ELSE IF Bit6(button) /\ ~Bit0(button) THEN WheelToken("MWHEEL_UP", mx, my)
    ELSE IF Bit6(button) /\ Bit0(button) THEN WheelToken("MWHEEL_DOWN", mx, my)
    ELSE <<>>

\* lines 1103-1120: an SGR report; the body is decoded as ASCII, bytes that
\* are none are dropped (errors="ignore"); <<>> when the sequence is none or
\* names no wheel, and the code goes on to its other tests
DecodeSgr(seq) ==
    IF StartsWith(seq, <<LBRACKET, LESS>>)
       /\ (EndsWith(seq, UPPER_M) \/ EndsWith(seq, LOWER_M))
    THEN LET body == SelectSeq(SubSeq(seq, 3, Len(seq) - 1), LAMBDA b : b < 128)
             parts == Split(body, SEMI)
         IN IF Len(parts) = 3
            THEN LET b == ParseInt(parts[1])
                     x == ParseInt(parts[2])
                     y == ParseInt(parts[3])
                 IN IF b.ok /\ x.ok /\ y.ok THEN Wheel(b.val, x.val, y.val)
                    ELSE Wheel(0 - 1, 0, 0)
            ELSE <<>>
    ELSE <<>>

\* lines 1121-1130: an X10 report ESC [ M Cb Cx Cy
DecodeX10(seq) ==
    IF StartsWith(seq, <<LBRACKET, UPPER_M>>) /\ Len(seq) >= 5
    THEN Wheel(seq[3] - 32, Max2(1, seq[4] - 32), Max2(1, seq[5] - 32))
    ELSE <<>>

\* lines 1131-1139: the arrow keys and everything else
DecodeArrow(seq) ==
    IF EndsWith(seq, UPPER_A + 2) THEN <<"RIGHT">>
    ELSE IF EndsWith(seq, UPPER_A + 3) THEN <<"LEFT">>
    ELSE <<"ESC">>

\* lines 1103-1139: the token for the bytes that followed the escape byte
DecodeEscape(seq) ==
    IF DecodeSgr(seq) # <<>> THEN DecodeSgr(seq)
    ELSE IF DecodeX10(seq) # <<>> THEN DecodeX10(seq)
    ELSE DecodeArrow(seq)

\* raw.decode("utf-8", errors="ignore") of one byte: the character of an
\* ASCII byte, the empty string for a byte that is no character of its own
KeyChars ==
    (PLUS :> "+") @@ (MINUS :> "-") @@ (LBRACKET :> "[") @@ (UPPER_M :> "M")
    @@ (LOWER_M :> "m") @@ (SEMI :> ";") @@ (LESS :> "<")
    @@ [b \in ZERO..(ZERO + 9) |-> DigitChars[b - ZERO + 1]]
    @@ (UPPER_A :> "A") @@ (UPPER_A + 1 :> "B") @@ (UPPER_A + 2 :> "C")
    @@ (UPPER_A + 3 :> "D") @@ (103 :> "g") @@ (115 :> "s")

DecodeByte(b) ==
    IF b >= 128 THEN <<>>
    ELSE IF b \in DOMAIN KeyChars THEN <<KeyChars[b]>>
    ELSE <<"chr">> \o IntStr(b)

\* poll() that takes the escape byte alone and leaves what follows it
poll_NoAccumulate(enabled, avail) ==
    IF ~enabled \/ avail = <<>> THEN [token |-> <<>>, left |-> avail]
    ELSE IF Head(avail) = ESC
    THEN [token |-> DecodeEscape(<<>>), left |-> Tail(avail)]
    ELSE IF Head(avail) = TAB THEN [token |-> <<"TAB">>, left |-> Tail(avail)]
    ELSE [token |-> DecodeByte(Head(avail)), left |-> Tail(avail)]

\* poll() with the bytes avail waiting on the terminal: the token returned
\* and the bytes left waiting.  Bytes that wait are read at once, so after an
\* escape byte the loop of lines 1095-1102 takes all of them: its waiting
\* (select with a timeout, the deadline) concerns bytes that have not arrived
poll(enabled, avail) ==
    IF ~enabled \/ avail = <<>> THEN [token |-> <<>>, left |-> avail]
    ELSE IF Head(avail) = ESC
    THEN [token |-> DecodeEscape(Tail(avail)), left |-> <<>>]
    ELSE IF Head(avail) = TAB THEN [token |-> <<"TAB">>, left |-> Tail(avail)]
    ELSE [token |-> DecodeByte(Head(avail)), left |-> Tail(avail)]

------------------------------------------------------------------------------
(* The calls of KeyPoller.poll and the bytes the terminal sends *)

MaxChunks == 2

MaxPolls == 3

\* the bytes of the decimal numeral of n >= 0
RECURSIVE NumeralBytes(_)
NumeralBytes(n) ==
    IF n < 10 THEN <<ZERO + n>>
    ELSE NumeralBytes(n \div 10) \o <<ZERO + (n % 10)>>

\* the SGR mouse report ESC [ < b ; x ; y M (final M) or m
SgrReport(b, x, y, final) ==
    <<ESC, LBRACKET, LESS>> \o NumeralBytes(b) \o <<SEMI>> \o NumeralBytes(x)
        \o <<SEMI>> \o NumeralBytes(y) \o <<final>>

Positions == {<<12, 8>>, <<1, 100>>, <<40, 8>>}

\* what a terminal sends at once: mouse reports (wheel and click, SGR and
\* X10, a click in row 35), a report with an empty field, a report cut short, a report with a
\* letter for a number, a report with a
\* leading zero, arrow keys, a lone escape, tab, "+", "s", a byte that is no
\* ASCII, the two bytes of an accented letter
Chunks ==
    {SgrReport(b, xy[1], xy[2], UPPER_M) : b \in {64, 65, 96, 0, 66}, xy \in Positions}
    \cup {SgrReport(65, 12, 8, LOWER_M),
          <<ESC, LBRACKET, LESS, ZERO + 6, ZERO + 4, SEMI, SEMI, ZERO + 8, UPPER_M>>,
          <<ESC, LBRACKET, LESS, ZERO + 6, ZERO + 4, SEMI, ZERO + 1>>,
          <<ESC, LBRACKET, LESS, ZERO + 6, ZERO + 4, SEMI, UPPER_A, SEMI, ZERO + 8, UPPER_M>>,
          <<ESC, LBRACKET, LESS, ZERO + 6, ZERO + 4, SEMI, ZERO, ZERO + 7, SEMI, ZERO + 8, UPPER_M>>,
          <<ESC, LBRACKET, UPPER_M, 96, 44, 40>>,
          <<ESC, LBRACKET, UPPER_M, 32, 44, 40>>,
          <<ESC, LBRACKET, UPPER_M, 32, 44, UPPER_A + 2>>,
          <<ESC, LBRACKET, UPPER_A>>, <<ESC, LBRACKET, UPPER_A + 2>>,
          <<ESC, LBRACKET, UPPER_A + 3>>,
          <<ESC>>, <<TAB>>, <<PLUS>>, <<115>>, <<200>>, <<195, 169>>}

\* the terminal sends a chunk of bytes
Arrive(chunk) ==
    /\ tty.arrived < MaxChunks
    /\ tty' = [tty EXCEPT !.avail = @ \o chunk, !.arrived = @ + 1]
    /\ UNCHANGED <<state, last, calls, run, sync, manager>>

\* key_poller.poll()
Poll ==
    /\ tty.polls < MaxPolls
    /\ LET r == poll(tty.enabled, tty.avail)
       IN tty' = [tty EXCEPT !.avail = r.left, !.token = r.token, !.polls = @ + 1]
    /\ UNCHANGED <<state, last, calls, run, sync, manager>>

KeyInit ==
    /\ state = DashboardState
    /\ last = NoCall
    /\ calls = 0
    /\ run = Process("subprocess")
    /\ tty \in {KeyPoller(enabled) : enabled \in BOOLEAN}
    /\ sync = Unlocked
    /\ manager = SandboxManager

KeyNext ==
    \/ \E chunk \in Chunks : Arrive(chunk)
    \/ Poll

KeySpec == KeyInit /\ [][KeyNext]_vars

------------------------------------------------------------------------------
(* The key loop of main (lines 1190-1241) *)

\* int(s) of the digits of a token
RECURSIVE CharsValue(_)
CharsValue(cs) ==
    IF cs = <<>> THEN 0
    ELSE 10 * CharsValue(SubSeq(cs, 1, Len(cs) - 1))
         + (CHOOSE v \in 0..9 : DigitChars[v + 1] = cs[Len(cs)])

\* lines 1200-1205: int(sx), and 0 for both numbers on a ValueError
TokenInt(cs) ==
    LET neg == cs # <<>> /\ Head(cs) = "-"
        ds == IF neg THEN Tail(cs) ELSE cs
    IN IF ds = <<>> \/ \E i \in 1..Len(ds) : \A v \in 1..10 : DigitChars[v] # ds[i]
       THEN [ok |-> FALSE, val |-> 0]
       ELSE [ok |-> TRUE, val |-> IF neg THEN 0 - CharsValue(ds) ELSE CharsValue(ds)]

\* a faulty variant of _grid_pane_from_mouse: the split is put at the right
\* edge of the right column
grid_pane_from_mouse_NoHalf(mouse_x, term_w) ==
    IF mouse_x < 32 THEN "None"
    ELSE IF mouse_x < 32 + Max2(1, term_w - 30) THEN "in_progress"
    ELSE "completed"

\* lines 504-513: the pane of the grid a column of the terminal lies in
grid_pane_from_mouse(mouse_x, term_w) ==
    IF mouse_x < 32 THEN "None"
    ELSE IF mouse_x < 32 + (Max2(1, term_w - 30) \div 2) THEN "in_progress"
    ELSE "completed"

\* cur = state.snap(); if cur["active_tab"] == "grid": adjust_tree_scroll
ScrollOnGrid(st, pane, delta) ==
    LET cur == snap(st)
    IN IF cur.active_tab = "grid" THEN adjust_tree_scroll(cur, pane, delta) ELSE cur

\* lines 1196-1216: a wheel token
on_wheel(st, token, term_w) ==
    LET parts == Split(token, ":")
    IN IF Len(parts) # 3 THEN st
       ELSE LET sx == TokenInt(parts[2])
                sy == TokenInt(parts[3])
                mx == IF sx.ok /\ sy.ok THEN sx.val ELSE 0
                pane == grid_pane_from_mouse(mx, term_w)
                cur == snap(st)
            IN IF cur.active_tab = "grid" /\ pane # "None"
               THEN adjust_tree_scroll(cur, pane,
                                       IF Head(token) = "MWHEEL_UP" THEN -2 ELSE 2)
               ELSE cur

\* lines 1191-1240: the command a token stands for
on_token(st, token, term_w) ==
    CASE token \in {<<"+">>, <<"=">>} -> adjust_visible_levels(st, 1)
      [] token \in {<<"-">>, <<"_">>} -> adjust_visible_levels(st, -1)
      [] Len(token) >= 2 /\ Head(token) \in {"MWHEEL_UP", "MWHEEL_DOWN"}
            /\ token[2] = ":" -> on_wheel(st, token, term_w)
      [] token \in {<<"TAB">>, <<"]">>, <<"RIGHT">>, <<"l">>, <<"L">>} -> switch_tab(st, 1)
      [] token \in {<<"[">>, <<"LEFT">>, <<"h">>, <<"H">>} -> switch_tab(st, -1)
      [] token \in {<<"g">>, <<"G">>} -> set_tab(st, "grid")
      [] token \in {<<"a">>, <<"A">>} -> set_tab(st, "activity")
      [] token \in {<<"w">>, <<"W">>} -> ScrollOnGrid(st, "in_progress", -2)
      [] token \in {<<"s">>, <<"S">>} -> ScrollOnGrid(st, "in_progress", 2)
      [] token \in {<<"e">>, <<"E">>} -> ScrollOnGrid(st, "completed", -2)
      [] token \in {<<"d">>, <<"D">>} -> ScrollOnGrid(st, "completed", 2)
      [] OTHER -> st

\* `while key`: the loop ends on a token that is the empty string
LoopEnds(token, left) == token = <<>>

\* lines 1190 and 1241: key = key_poller.poll(), and the body of the loop for
\* a key that is no empty string; the loop ends on the empty string
KeyPoll ==
    /\ run.pc = "poll"
    /\ LET r == poll(tty.enabled, tty.avail)
           begun == IF tty.in_loop THEN tty.queued ELSE Len(tty.avail)
           used == Len(tty.avail) - Len(r.left)
           ends == LoopEnds(r.token, r.left)
       IN /\ tty' = [tty EXCEPT !.avail = r.left, !.token = r.token,
                                !.in_loop = ~ends,
                                !.queued = Max2(0, begun - used)]
          /\ state' = IF r.token # <<>> THEN on_token(state, r.token, tty.width) ELSE state
          /\ run' = IF ends THEN [run EXCEPT !.pc = "drain", !.batch = 0] ELSE run
    /\ UNCHANGED <<last, calls, sync, manager>>

\* the widths of the terminal
Widths == {80, 40}

KeyLoopInit ==
    /\ state = DashboardState
    /\ last = NoCall
    /\ calls = 0
    /\ run = Process("subprocess")
    /\ tty \in {[KeyPoller(TRUE) EXCEPT !.width = w] : w \in Widths}
    /\ sync = Unlocked
    /\ manager = SandboxManager

\* the ticks of main while keys are pressed and no event arrives
KeyLoopNext ==
    \/ \E chunk \in Chunks : Arrive(chunk)
    \/ KeyPoll
    \/ DrainDone
    \/ Render
    \/ Sleep
    \/ Interrupt
    \/ Summary

KeyLoopSpec == KeyLoopInit /\ [][KeyLoopNext]_vars

------------------------------------------------------------------------------
(* SandboxManager.run_task (src/infra/spawn_sandbox.py, lines 239-292) *)

MaxSandboxes == 3

\* lines 222-231
terminate_sandbox(m, sandbox_id) ==
    IF sandbox_id \in m.active_sandboxes
    THEN [m EXCEPT !.terminated = @ \cup {sandbox_id},
                   !.active_sandboxes = @ \ {sandbox_id}]
    ELSE m

\* lines 290-292: if info: await self.terminate_sandbox(info.sandbox_id)
finally(m, c) ==
    IF m.co[c].info # 0 THEN terminate_sandbox(m, m.co[c].info) ELSE m

\* lines 271-292: the except clause, the finally clause and the return of
\* the handoff that says "failed"
Failed(m, c) ==
    [finally(m, c) EXCEPT !.co[c].pc = "returned", !.co[c].handoff = "failed"]

\* lines 252-254 and 80-114: run_task is called and create_sandbox runs to its
\* first await: the sandbox is created, its server started, its tunnel found
\* and the sandbox registered in active_sandboxes
RunTask(c) ==
    /\ manager.co[c].pc \in {"idle", "returned"}
    /\ manager.uuids < MaxSandboxes
    /\ LET sandbox_id == manager.uuids + 1
       IN manager' = [manager EXCEPT
                         !.uuids = sandbox_id,
                         !.active_sandboxes = @ \cup {sandbox_id},
                         !.co[c] = [IdleRun EXCEPT !.pc = "wait_for_ready",
                                                   !.sandbox_id = sandbox_id,
                                                   !.registered = {sandbox_id}]]
    /\ UNCHANGED <<state, last, calls, run, tty, sync>>

\* lines 83-107: modal.Sandbox.create, sandbox.exec or sandbox.tunnels raises,
\* nothing was registered
CreateFails(c) ==
    /\ manager.co[c].pc \in {"idle", "returned"}
    /\ manager' = Failed([manager EXCEPT !.co[c] = IdleRun], c)
    /\ UNCHANGED <<state, last, calls, run, tty, sync>>

\* lines 114-117 and 254: the server answers, create_sandbox returns and
\* run_task binds info; send_task runs to its await of the POST
Ready(c) ==
    /\ manager.co[c].pc = "wait_for_ready"
    /\ manager' = [manager EXCEPT !.co[c].pc = "send_task",
                                  !.co[c].info = manager.co[c].sandbox_id]
    /\ UNCHANGED <<state, last, calls, run, tty, sync>>

\* line 134: _wait_for_ready raises TimeoutError, out of create_sandbox
ReadyTimeout(c) ==
    /\ manager.co[c].pc = "wait_for_ready"
    /\ manager' = Failed(manager, c)
    /\ UNCHANGED <<state, last, calls, run, tty, sync>>

\* lines 258-269 and 290-292: the agent answers 200, the handoff is returned
TaskDone(c) ==
    /\ manager.co[c].pc = "send_task"
    /\ manager' = [finally(manager, c) EXCEPT !.co[c].pc = "returned",
                                              !.co[c].handoff = "complete"]
    /\ UNCHANGED <<state, last, calls, run, tty, sync>>

\* lines 191-203: the POST fails or answers another status
TaskFails(c) ==
    /\ manager.co[c].pc = "send_task"
    /\ manager' = Failed(manager, c)
    /\ UNCHANGED <<state, last, calls, run, tty, sync>>

RECURSIVE TerminateEach(_, _)
TerminateEach(m, ids) ==
    IF ids = {} THEN m
    ELSE LET sid == CHOOSE x \in ids : TRUE
         IN TerminateEach(terminate_sandbox(m, sid), ids \ {sid})

\* lines 233-237: terminate_all, called by another coroutine
TerminateAll ==
    /\ manager.active_sandboxes # {}
    /\ manager' = TerminateEach(manager, manager.active_sandboxes)
    /\ UNCHANGED <<state, last, calls, run, tty, sync>>

SandboxNext ==
    \/ \E c \in Runs : RunTask(c)
    \/ \E c \in Runs : CreateFails(c)
    \/ \E c \in Runs : Ready(c)
    \/ \E c \in Runs : ReadyTimeout(c)
    \/ \E c \in Runs : TaskDone(c)
    \/ \E c \in Runs : TaskFails(c)
    \/ TerminateAll

SandboxSpec == Init /\ [][SandboxNext]_vars

------------------------------------------------------------------------------
(* Runs of ingest over events that name an agent role *)

WithRole(ev, agent_role) == [ev EXCEPT !.agentRole = agent_role]

\* events of the agents: workers, subplanners, planners, a role that is the
\* empty string or a number, no role; events for the root; the messages of
\* the decomposition, whose handlers give the role themselves
RoleEvents ==
    {WithRole(TaskStatus(A, "running"), r) :
        r \in {<<"worker">>, <<"subplanner">>, <<"planner">>, <<>>, NUM}}
    \cup {TaskStatus(A1, "running"),
          WithRole(Heartbeat(A1), <<"worker">>),
          WithRole(Heartbeat(A1), <<"root-planner">>),
          WithRole(TaskStatus(ROOT_ID, "running"), <<"worker">>),
          WithRole(TaskStatus(ROOT_ID, "running"), <<"planner">>),
          WithRole(WithData(<<"Calling LLM for task decomposition">>,
                            [NoData EXCEPT !.taskId = A, !.parentTaskId = A1]), <<"worker">>),
          WithRole(WithData(<<"Subtask still complex - recursing">>,
                            [NoData EXCEPT !.taskId = A1, !.subtaskId = A1, !.parentId = B]),
                   <<"worker">>),
          WithData(<<"Subtask completed by worker">>,
                   [NoData EXCEPT !.subtaskId = A1, !.status = "complete"])}

RoleNext == \E ev \in RoleEvents : Ingest(ev)

RoleSpec == Init /\ [][RoleNext]_vars

------------------------------------------------------------------------------
(* Properties of the planner tree *)

Tree == state.tree

Snap == snapshot(state.tree)

\* following the parent pointers from x reaches the root
RECURSIVE ReachesRoot(_, _, _)
ReachesRoot(t, x, fuel) ==
    IF x = ROOT_ID THEN TRUE
    ELSE IF fuel = 0 \/ x \notin DOMAIN t.parent THEN FALSE
    ELSE ReachesRoot(t, t.parent[x], fuel - 1)

Connected(t, x) == ReachesRoot(t, x, Cardinality(DOMAIN t.parent))

\* the ancestors x would have: the parent pointers of the ids already known,
\* the -sub- prefix (or the root) for the ids not yet known; TRUE when they
\* lead to the root without meeting node_id or an empty id
RECURSIVE ChainAvoids(_, _, _, _)
ChainAvoids(t, x, node_id, fuel) ==
    IF x = ROOT_ID THEN TRUE
    ELSE IF x = node_id \/ ~Truthy(x) \/ fuel = 0 THEN FALSE
    ELSE IF x \in DOMAIN t.parent THEN ChainAvoids(t, t.parent[x], node_id, fuel - 1)
    ELSE ChainAvoids(t, Or(infer_parent_id(x), ROOT_ID), node_id, fuel - 1)

ChainFuel(t) == Cardinality(DOMAIN t.parent) + 4

\* C1 (as claimed): every node of the tree snapshot whose status is complete,
\* failed or cancelled has progress exactly 1.0
C1_TerminalProgressIsOne ==
    \A n \in DOMAIN Snap.nodes :
        Snap.nodes[n].status \in TerminalStatuses => Snap.nodes[n].progress = FOne

\* the ancestors x would have, as ChainAvoids follows them; FALSE only when
\* they come back to node_id or run in a circle, TRUE also when they stop at
\* an empty id
RECURSIVE ChainAcyclic(_, _, _, _)
ChainAcyclic(t, x, node_id, fuel) ==
    IF x = ROOT_ID \/ ~Truthy(x) THEN TRUE
    ELSE IF x = node_id \/ fuel = 0 THEN FALSE
    ELSE IF x \in DOMAIN t.parent THEN ChainAcyclic(t, t.parent[x], node_id, fuel - 1)
    ELSE ChainAcyclic(t, Or(infer_parent_id(x), ROOT_ID), node_id, fuel - 1)

\* C2 (as claimed, calls that declare a parent cycle set aside): after
\* ensure(nodeId, parentId, role) with a non-empty nodeId the parent pointers
\* lead from nodeId to the root and nodeId is in the next tree snapshot
C2_EnsureAlwaysConnects ==
    [][(/\ last'.op = "ensure"
        /\ Truthy(last'.node_id)
        /\ \/ last'.node_id = ROOT_ID
           \/ ChainAcyclic(state.tree, EffectiveParent(last'.node_id, last'.parent_id),
                           last'.node_id, ChainFuel(state.tree)))
       => (/\ Connected(state'.tree, last'.node_id)
           /\ last'.node_id \in DOMAIN snapshot(state'.tree).nodes)]_vars

\* C2 (what does hold): the same, provided the ancestors of the parent the
\* call settles on (given, or inferred when omitted) lead to the root without
\* meeting nodeId or an empty id
C2_EnsureConnectsWithoutEmptyId ==
    [][(/\ last'.op = "ensure"
        /\ Truthy(last'.node_id)
        /\ \/ last'.node_id = ROOT_ID
           \/ ChainAvoids(state.tree, EffectiveParent(last'.node_id, last'.parent_id),
                          last'.node_id, ChainFuel(state.tree)))
       => (/\ Connected(state'.tree, last'.node_id)
           /\ last'.node_id \in DOMAIN snapshot(state'.tree).nodes)]_vars

\* C9: ensure is idempotent: a second call with the same arguments leaves the
\* parent map, child lists, statuses, roles, orders and counter as the first
\* call left them
C9_EnsureIdempotent ==
    last.op = "ensure" =>
        ensure(Tree, last.node_id, last.parent_id, last.role) = Ok(Tree)

\* C9 witness: the call moved "a", known before "b" was, under "b" and gave
\* it a role
C9_Witness ==
    /\ last.op = "ensure" /\ last.node_id = <<"a">> /\ last.parent_id = <<"b">>
    /\ <<"b">> \in DOMAIN Tree.parent
    /\ Tree.order[<<"a">>] < Tree.order[<<"b">>]
    /\ Tree.parent[<<"a">>] = <<"b">>
    /\ Tree.children[<<"b">>] = <<(<<"a">>)>>

\* the list s without the ids of S, order kept
RECURSIVE Without(_, _)
Without(s, S) ==
    IF s = <<>> THEN <<>>
    ELSE IF Head(s) \in S THEN Without(Tail(s), S)
    ELSE <<Head(s)>> \o Without(Tail(s), S)

\* no id is in the child lists of two parents, nor twice in one list
NoSharedChild(t) ==
    /\ \A q \in DOMAIN t.children :
          \A i, j \in 1..Len(t.children[q]) :
              t.children[q][i] = t.children[q][j] => i = j
    /\ \A q1, q2 \in DOMAIN t.children :
          q1 # q2 => Range(t.children[q1]) \cap Range(t.children[q2]) = {}

\* ensure(n, p) moved n from its old parent's child list to the end of p's
\* and left every other id where it was
MovedChild(t, t2, n, p) ==
    LET old == t.parent[n]
        fresh == DOMAIN t2.parent \ DOMAIN t.parent
    IN /\ old \in DOMAIN t2.children => ~InSeq(n, t2.children[old])
       /\ p \in DOMAIN t2.children
       /\ Len(t2.children[p]) > 0
       /\ t2.children[p][Len(t2.children[p])] = n
       /\ \A q \in DOMAIN t2.children :
             Without(t2.children[q], {n} \cup fresh)
                 = Without(Get(t.children, q, <<>>), {n})

\* C10 (as claimed, read for a node other than the root, whose parent is
\* always none): ensure(n, p) for a known n whose parent differs from p moves
\* n from the old parent's child list to the end of p's and moves no other
\* id, and no reachable state has an id in two child lists or twice in one
C10_ReparentMovesOneChild ==
    [][(/\ last'.op = "ensure"
        /\ last'.node_id \in DOMAIN state.tree.parent
        /\ last'.node_id # ROOT_ID
        /\ last'.parent_id # NONE
        /\ state.tree.parent[last'.node_id] # last'.parent_id
        => MovedChild(state.tree, state'.tree, last'.node_id, last'.parent_id))
       /\ NoSharedChild(state'.tree)]_vars

------------------------------------------------------------------------------
(* Properties of the state engine *)

\* C3 (as claimed): ingest returns normally for every event, whatever fields
\* are missing and whatever the types of the values
C3_IngestNeverRaises == last.op = "ingest" => ~last.raised

\* C5 (as claimed): in every reachable state, from construction onward,
\* 1 <= visible_levels <= activeMaxDepth + 1
C5_VisibleLevelsAlwaysInRange ==
    /\ 1 <= state.visible_levels
    /\ state.visible_levels <= ActiveMaxDepth(state.tree) + 1

\* C5 (amended): visible_levels >= 1 in every reachable state, and
\* visible_levels <= activeMaxDepth + 1 right after every
\* adjust_visible_levels call and every snapshot; construction and ingest may
\* leave it above that cap until the next such call
C5_VisibleLevelsClampedByCommands ==
    /\ 1 <= state.visible_levels
    /\ last.op \in {"adjust_visible_levels", "snap"} =>
          state.visible_levels <= ActiveMaxDepth(state.tree) + 1

\* C5 witness: with "a-sub-1" running at depth 2 a zoom-in took the cursor to 3
C5_Witness ==
    /\ last.op = "adjust_visible_levels" /\ last.arg = 1
    /\ ActiveMaxDepth(state.tree) = 2
    /\ state.visible_levels = 3

Unrecognized(ev) == ev.obj /\ GetStr(ev.message) \notin RecognizedMessages

EventData(ev) == IF ev.data_kind = "object" THEN ev.d ELSE NoData

EventTaskId(ev) == Str(Or(Or(GetNone(EventData(ev).taskId), GetNone(ev.taskId)), <<>>))

\* the state st2 is st with one entry put in front of the activity log
OneEntryAdded(st, st2) ==
    /\ Len(st2.activity) = Min2(Len(st.activity) + 1, MAX_ACTIVITY)
    /\ Tail(st2.activity) = SubSeq(st.activity, 1, Len(st2.activity) - 1)
    /\ [st2 EXCEPT !.activity = st.activity] = st

------------------------------------------------------------------------------
(* Properties of the producers and the render loop *)

\* C4 (as claimed): once the render loop has dequeued the sentinel it
\* eventually terminates, with no interrupt needed
C4_SentinelEndsLoop == run.stream_ended ~> ~InLoop

\* C7 (as claimed): the render loop is left only on an interrupt or after
\* the end of the input stream, never because of the content of a line
C7_LoopLeftOnlyOnInterruptOrEnd ==
    [][(InLoop /\ run'.pc \notin {"poll", "drain", "render", "sleep"}) =>
          (run'.interrupted \/ run.stream_ended)]_vars

\* C8 (as claimed): a producer whose read fails has enqueued, when it is
\* done, the error event and then the sentinel; the sentinel is enqueued in
\* every failure case
C8_ReadFailureEnqueuesErrorThenSentinel ==
    (run.failed /\ run.prod = "done") =>
        /\ Len(run.put) >= 2
        /\ run.put[Len(run.put)] = Sentinel
        /\ run.put[Len(run.put) - 1] = Item(ProcessError)

------------------------------------------------------------------------------
(* Further properties of the planner tree *)

\* c is in the child list of p exactly when the parent of c is p
Agree(t, c, p) ==
    (p \in DOMAIN t.children /\ InSeq(c, t.children[p]))
        <=> (c \in DOMAIN t.parent /\ t.parent[c] = p)

TreeIds(t) == DOMAIN t.parent \cup DOMAIN t.children

\* C11 (as claimed): in every reachable state c is in children[p] if and only
\* if parent[c] = p, for all ids c and p; the root has parent None and is in
\* no child list
C11_ChildrenAgreeWithParents ==
    /\ \A c \in TreeIds(Tree), p \in TreeIds(Tree) : Agree(Tree, c, p)
    /\ Tree.parent[ROOT_ID] = NONE

\* C11 (what does hold): the same for every parent id but the empty string
C11_AgreeButForEmptyId ==
    /\ \A c \in TreeIds(Tree), p \in TreeIds(Tree) \ {<<>>} : Agree(Tree, c, p)
    /\ Tree.parent[ROOT_ID] = NONE

\* the progress values the snapshot s reports for the children it lists for n
ChildProgress(s, n) ==
    [i \in 1..Len(s.nodes[n].children) |-> s.nodes[s.nodes[n].children[i]].progress]

\* the fraction p is the sum of vals divided by their number
IsMeanOf(p, vals) ==
    LET total == FSum(vals)
    IN total[1] * p[2] = p[1] * Len(vals) * total[2]

\* C12: in every tree snapshot a node that has a child and whose status is
\* not complete, failed or cancelled has as progress the unweighted mean of
\* the progress values the same snapshot reports for its children
C12_ParentProgressIsMean ==
    LET s == Snap
    IN \A n \in DOMAIN s.nodes :
          (s.nodes[n].children # <<>> /\ s.nodes[n].status \notin TerminalStatuses)
              => /\ \A i \in 1..Len(s.nodes[n].children) :
                       s.nodes[n].children[i] \in DOMAIN s.nodes
                 /\ IsMeanOf(s.nodes[n].progress, ChildProgress(s, n))

\* C12 witness: the root has a complete child and a running one, its progress
\* is (1 + 3/5) / 2 = 4/5
C12_Witness ==
    LET s == Snap
    IN /\ Len(s.nodes[ROOT_ID].children) = 2
       /\ s.nodes[ROOT_ID].status \notin TerminalStatuses
       /\ \E i, j \in 1..2 :
             /\ s.nodes[s.nodes[ROOT_ID].children[i]].progress = FOne
             /\ s.nodes[s.nodes[ROOT_ID].children[j]].progress = <<3, 5>>
       /\ s.nodes[ROOT_ID].progress = <<4, 5>>

\* the ids of the list kids come in strictly increasing discovery order
InDiscoveryOrder(kids, order) ==
    /\ \A i \in 1..Len(kids) : kids[i] \in DOMAIN order
    /\ \A i, j \in 1..Len(kids) : i < j => order[kids[i]] < order[kids[j]]

\* C13: a call never changes the discovery order of an id mentioned before,
\* gives the ids it mentions for the first time a later one than every id
\* mentioned before, and the snapshot lists the children of every node in
\* that order, whatever status updates and reparenting came between (the
\* nodes of the snapshot are those of its depth map)
C13_ChildrenInDiscoveryOrder ==
    [][\A t \in {state.tree}, t2 \in {state'.tree} :
          /\ \A x \in DOMAIN t.order :
                x \in DOMAIN t2.order /\ t2.order[x] = t.order[x]
          /\ \A x \in DOMAIN t2.order \ DOMAIN t.order :
                \A y \in DOMAIN t.order : t.order[y] < t2.order[x]
          /\ \A n \in DOMAIN depth_map(t2).depth :
                \A listed \in {sorted_kids(t2, n)} :
                   /\ InDiscoveryOrder(listed, t2.order)
                   /\ Range(listed) = Range(Get(t2.children, n, <<>>))]_vars

\* C13 witness: "a" was mentioned before "b" and moved under the root after
\* it; the child list of the root holds b, a and the snapshot lists a, b
C13_Witness ==
    /\ Tree.children[ROOT_ID] = <<(<<"b">>), <<"a">>>>
    /\ Snap.nodes[ROOT_ID].children = <<(<<"a">>), <<"b">>>>
    /\ last.op = "ensure" /\ last.node_id = <<"a">> /\ last.parent_id = ROOT_ID

------------------------------------------------------------------------------
(* Properties of the key poller *)

\* C14: when exactly the bytes of one SGR mouse report ESC [ < b ; x ; y M
\* wait on the terminal of an enabled poller, poll returns the wheel-up token
\* with (x, y) for b = 64 and the wheel-down token with (x, y) for b = 65, and
\* leaves no byte waiting
C14_SgrWheelDecoded ==
    [][\A xy \in Positions :
          /\ (tty.enabled /\ tty'.polls = tty.polls + 1
                /\ tty.avail = SgrReport(64, xy[1], xy[2], UPPER_M))
             => (tty'.token = <<"MWHEEL_UP", ":">> \o IntStr(xy[1]) \o <<":">> \o IntStr(xy[2])
                 /\ tty'.avail = <<>>)
          /\ (tty.enabled /\ tty'.polls = tty.polls + 1
                /\ tty.avail = SgrReport(65, xy[1], xy[2], UPPER_M))
             => (tty'.token = <<"MWHEEL_DOWN", ":">> \o IntStr(xy[1]) \o <<":">> \o IntStr(xy[2])
                 /\ tty'.avail = <<>>)]_vars

\* C14 witness: poll has returned "MWHEEL_DOWN:12:8"
C14_Witness ==
    /\ tty.enabled /\ tty.polls = 1 /\ tty.arrived = 1
    /\ tty.token = <<"MWHEEL_DOWN", ":", "1", "2", ":", "8">>
    /\ tty.avail = <<>>

------------------------------------------------------------------------------
(* Properties of the life of a task *)

\* the last three calls ingested "Task created" for t, "Task status" to
\* running for t and "Task completed" with status complete for t, none of
\* them naming a parent
LifeOf(t) ==
    /\ last.op = "ingest"
    /\ Len(last.prev) = 2
    /\ last.prev[Len(last.prev) - 1] = TaskCreated(t)
    /\ last.prev[Len(last.prev)] = TaskStatus(t, "running")
    /\ last.ev = TaskCompleted(t, "complete")

C15_CompleteBelowTerminalRoot ==
    \A t \in {A, B} :
        (LifeOf(t) /\ t \in DOMAIN Snap.nodes) => Snap.nodes[t].progress = FOne

------------------------------------------------------------------------------
(* Properties of ids with a -sub- suffix *)

\* the ids <P>-sub-<n> of the traced runs and their P
PrefixOf == (A1 :> A) @@ (A12 :> A1) @@ (Sub1 :> <<>>)

\* x and every id on the way up from x along the parent map, the root at its
\* end, are nodes of the snapshot s of the tree t
RECURSIVE ChainInSnapshot(_, _, _, _)
ChainInSnapshot(t, s, x, fuel) ==
    /\ x \in DOMAIN s.nodes
    /\ \/ x = ROOT_ID
       \/ /\ fuel > 0
          /\ x \in DOMAIN t.parent
          /\ ChainInSnapshot(t, s, t.parent[x], fuel - 1)

\* ingest has just registered the id without an explicit parent
IngestedBare(id, l2) ==
    /\ l2.op = "ingest"
    /\ ~l2.raised
    /\ EventTaskId(l2.ev) = id
    /\ ParentField(EventData(l2.ev)) = NONE

\* C16: after an id <P>-sub-<n> is ingested with no explicit parent its parent
\* is P, and where P was not known before, the snapshot holds the whole chain
\* from the id up to the root
C16_InferredParentChain ==
    [][\A id \in DOMAIN PrefixOf, t \in {state.tree}, t2 \in {state'.tree} :
          (calls' = calls + 1 /\ IngestedBare(id, last')) =>
             /\ id \in DOMAIN t2.parent
             /\ t2.parent[id] = PrefixOf[id]
             /\ PrefixOf[id] \notin DOMAIN t.parent
                   => \A s2 \in {snapshot(t2)} :
                         /\ PrefixOf[id] \in DOMAIN s2.nodes
                         /\ ChainInSnapshot(t2, s2, id, Cardinality(DOMAIN t2.parent))]_vars

\* the same for the ids whose P is not the empty string
C16_ChainForNonEmptyPrefix ==
    [][\A id \in DOMAIN PrefixOf \ {Sub1}, t \in {state.tree}, t2 \in {state'.tree} :
          (calls' = calls + 1 /\ IngestedBare(id, last')) =>
             /\ id \in DOMAIN t2.parent
             /\ t2.parent[id] = PrefixOf[id]
             /\ \A s2 \in {snapshot(t2)} :
                   /\ PrefixOf[id] \in DOMAIN s2.nodes
                   /\ ChainInSnapshot(t2, s2, id, Cardinality(DOMAIN t2.parent))]_vars

------------------------------------------------------------------------------
(* Properties of the activity log *)

\* the log b is the log a after one entry was put in front of it: the entry
\* is first, the entries of a follow in their order, and of a log of
\* MAX_ACTIVITY entries the last one, which is the oldest, is gone
Pushed(a, b) ==
    /\ Len(b) = Min2(Len(a) + 1, MAX_ACTIVITY)
    /\ Tail(b) = SubSeq(a, 1, Len(b) - 1)

\* C17: the activity log never holds more than 50 entries, and every ingest
\* leaves it as it was or puts one entry in front of it; on a log of 50
\* entries that drops the oldest entry and nothing else
C17_ActivityLogBounded ==
    [][/\ Len(state'.activity) <= 50
       /\ \/ state'.activity = state.activity
          \/ Pushed(state.activity, state'.activity)
       /\ (Len(state.activity) = 50 /\ state'.activity # state.activity)
             => /\ Len(state'.activity) = 50
                /\ SubSeq(state'.activity, 2, 50) = SubSeq(state.activity, 1, 49)]_vars

\* the entry of "Iteration complete" for the iteration n
IterationEntry(n) == <<(<<"now">>), <<"  -- iteration ", ToString(n), "  (", "0", " tasks)">>, "blue">>

\* C17 witness: the log held the entries of the iterations 50 down to 1, one
\* merge was ingested: the entry of the iteration 1 is gone
C17_Witness ==
    /\ calls = 1 /\ last.op = "ingest" /\ last.ev = MergeResult("merged", <<"f">>)
    /\ Len(state.activity) = 50
    /\ state.activity[1][3] = "green"
    /\ state.activity[2] = IterationEntry(50)
    /\ state.activity[50] = IterationEntry(2)

------------------------------------------------------------------------------
(* Properties of the drain loop *)

\* the events that wait in the queue
Waiting(r) == SelectSeq(r.queue, LAMBDA item : ~item.none)

\* C18: a tick passes at most 200 events to ingest: an event is ingested only
\* while the batch of the tick counts fewer than 200, and is counted; the
\* events the tick leaves behind stay in the queue in their order, and are
\* the next ones to be ingested
C18_BatchCapPerTick ==
    [][/\ run'.batch <= 200
       /\ state'.iteration # state.iteration
             => /\ run.pc = "drain" /\ run.batch < 200
                /\ run'.batch = run.batch + 1
                /\ Head(run.queue) = Item(Iteration(state'.iteration))
                /\ run'.queue = Tail(run.queue)
       /\ (run.pc = "drain" /\ run.batch = 200 /\ run'.pc # run.pc)
             => run'.pc \in {"render", "summary"} /\ run'.queue = run.queue
       /\ \A w \in {Waiting(run')}, n \in {state'.iteration} :
             \A i \in 1..Len(w) : w[i] = Item(Iteration(n + i))]_vars

\* C18 witness: the first tick took 200 events and left one in the queue, the
\* second tick has taken it
C18_Witness ==
    /\ run.pc = "drain" /\ run.batch = 1
    /\ state.iteration = 201
    /\ state.activity[1] = IterationEntry(201)
    /\ run.queue = <<>>

\* C19: the events of the one producer, numbered in the order it enqueued
\* them, are ingested in that order with none passed over, within a batch and
\* from one tick to the next: each ingest applies the event whose number
\* follows the number of the event applied before it, and the activity log
\* lists the events newest first by falling numbers
C19_IngestedInEnqueueOrder ==
    [][\A n \in {state.iteration}, st2 \in {state'} :
          /\ st2.iteration # n
                => /\ st2.iteration = n + 1
                   /\ Head(run.queue) = Item(Iteration(n + 1))
                   /\ \A i \in 2..Len(run.queue) :
                         run.queue[i].none \/ run.queue[i] = Item(Iteration(n + i))
          /\ \A i \in 1..Len(st2.activity) :
                st2.activity[i] = IterationEntry(st2.iteration - i + 1)]_vars

\* C19 witness: the producer enqueued the event 201 behind a burst of 200
\* while the first tick drained it; the second tick has ingested 201 and the
\* log shows 201, 200, 199 from the top
C19_Witness ==
    /\ run.nread = 1 /\ run.batch = 1 /\ run.pc = "drain"
    /\ state.iteration = BatchCap + 1
    /\ state.activity[1] = IterationEntry(201)
    /\ state.activity[2] = IterationEntry(200)
    /\ state.activity[3] = IterationEntry(199)

------------------------------------------------------------------------------
(* Properties of the lock *)

\* the thread is inside the body of a method
Inside(th) == th.pc \in {"header", "handler", "body", "release"}

\* C20: the bodies of ingest, snap and the UI commands never overlap: at most
\* one thread is inside a body, while the lock is free the dashboard is what
\* the calls that have returned make of it one after the other, and what a
\* snap() returns is the snapshot of that dashboard: no event is partly
\* applied in it
C20_CallsNeverOverlap ==
    [][\A sy \in {sync'}, st2 \in {state'} :
          /\ \A t \in Threads, u \in Threads :
                (Inside(sy.th[t]) /\ Inside(sy.th[u])) => t = u
          /\ sy.owner = 0 => st2 = sy.lin
          /\ \A t \in Threads :
                (sync.th[t].pc = "body" /\ sync.th[t].op = "snap" /\ sy.th[t].pc = "release")
                   => /\ sy.th[t].result = snap(sync.lin)
                      /\ \A u \in Threads : sy.th[u].pc # "handler"]_vars

\* C20 witness: the thread 2 is between the header and the handler of an
\* ingest, the task id registered and nothing else of the event applied,
\* while the thread 1 has called snap() and waits for the lock
C20_Witness ==
    /\ sync.th[2].pc = "handler" /\ sync.owner = 2
    /\ state # sync.lin
    /\ sync.th[1].pc = "wait" /\ sync.th[1].op = "snap"

------------------------------------------------------------------------------
(* Properties of the metric counters *)

\* the scalar counters of a dashboard, each with the field of the event data
\* that carries it
Counters(st, d) ==
    <<(<<st.active_workers, d.activeWorkers>>), <<st.pending_tasks, d.pendingTasks>>,
      <<st.completed_tasks, d.completedTasks>>, <<st.failed_tasks, d.failedTasks>>,
      <<st.commits_per_hour, d.commitsPerHour>>,
      <<st.merge_success_rate, d.mergeSuccessRate>>,
      <<st.total_tokens, d.totalTokensUsed>>>>

\* C21: a "Metrics" or "Iteration complete" event leaves every counter whose
\* field it omits at its previous value, and an event with any other message
\* changes none of the counters
C21_OmittedCounterKept ==
    [][\A l2 \in {last'} :
          (l2.op = "ingest" /\ calls' = calls + 1) =>
             \A d \in {EventData(l2.ev)} :
                \A old \in {Counters(state, d)}, new \in {Counters(state', d)} :
                   \A i \in 1..Len(old) :
                      \/ new[i][1] = old[i][1]
                      \/ /\ l2.ev.message \in {<<"Metrics">>, <<"Iteration complete">>}
                         /\ old[i][2] # <<>>]_vars

\* C21 witness: after the full metrics, a "Metrics" event that carries the
\* active workers alone: they are 2 now, the other counters are those of the
\* full metrics
C21_Witness ==
    /\ last.op = "ingest"
    /\ last.ev = WithData(<<"Metrics">>, [NoData EXCEPT !.activeWorkers = <<2>>])
    /\ state.active_workers = 2
    /\ state.pending_tasks = 4 /\ state.completed_tasks = 5 /\ state.failed_tasks = 1
    /\ state.commits_per_hour = 7 /\ state.merge_success_rate = 1
    /\ state.total_tokens = 9

------------------------------------------------------------------------------
(* Properties of the key loop *)

\* C22: when a tick renders, none of the bytes that waited on the terminal
\* when the key loop of the tick began is still unread
C22_KeyLoopEmptiesInput ==
    run.pc = "render" => tty.queued = 0

\* the bytes after ESC are framed as an SGR report, ESC [ < ... M or m
SgrFramed(seq) ==
    /\ StartsWith(seq, <<LBRACKET, LESS>>)
    /\ EndsWith(seq, UPPER_M) \/ EndsWith(seq, LOWER_M)

\* a field of the report between the frame is empty or no decimal number
MalformedFields(seq) ==
    LET parts == Split(SubSeq(seq, 3, Len(seq) - 1), SEMI)
    IN \E i \in 1..Len(parts) : ~ParseInt(parts[i]).ok

\* C23: for an SGR-framed report with a field that is empty or no decimal
\* number, poll returns the token "ESC" and no wheel token
C23_MalformedSgrIsEscape ==
    [][(/\ tty.enabled /\ tty'.polls = tty.polls + 1
        /\ tty.avail # <<>> /\ Head(tty.avail) = ESC
        /\ SgrFramed(Tail(tty.avail))
        /\ MalformedFields(Tail(tty.avail)))
       => tty'.token = <<"ESC">>]_vars

------------------------------------------------------------------------------
(* Properties of calls that name no parent *)

\* C24: ensure or update_status for a node already known, called with the
\* parent omitted, leaves the parent of every node and every child list as
\* they were, whatever parent the node was given earlier
C24_OmittedParentKeepsPlace ==
    [][(/\ last'.op \in {"ensure", "update_status"}
        /\ calls' = calls + 1
        /\ last'.parent_id = NONE
        /\ last'.node_id \in DOMAIN state.tree.parent)
       => /\ state'.tree.parent = state.tree.parent
          /\ state'.tree.children = state.tree.children]_vars

------------------------------------------------------------------------------
(* Properties of snap *)

\* C25: every snapshot snap returns has 1 <= visible_levels <=
\* active_max_depth + 1, active_max_depth being the one of that snapshot
C25_SnapshotLevelsInRange ==
    last.op = "snap" =>
        /\ 1 <= state.visible_levels
        /\ state.visible_levels <= ActiveMaxDepth(state.tree) + 1

\* C25 witness: "a-sub-1" runs at depth 2, a zoom-in took the cursor to 3 and
\* the snapshot taken next has visible_levels 3 and active_max_depth 2
C25_Witness ==
    /\ last.op = "snap" /\ calls = 3
    /\ ActiveMaxDepth(state.tree) = 2
    /\ state.visible_levels = 3

------------------------------------------------------------------------------
(* Properties of the status of a node *)

\* the status an event writes for its task: "to" of "Task status", pending
\* for "Task created", complete or failed for "Task completed"; "" for an
\* event that writes none
WrittenStatus(ev) ==
    LET d == EventData(ev)
    IN IF ~ev.obj \/ ~Truthy(GetStr(d.taskId)) THEN ""
       ELSE IF ev.message = <<"Task status">> THEN d.to
       ELSE IF ev.message = <<"Task created">> THEN "pending"
       ELSE IF ev.message = <<"Task completed">> THEN FinalStatus(d.status)
       ELSE ""

\* C26: update_status rejects no transition: after an event that bears a
\* status for the task n was ingested, the status of n is the status of that
\* event, whatever the status of n was before
C26_StatusIsLastWritten ==
    (last.op = "ingest" /\ WrittenStatus(last.ev) # "")
        => /\ ~last.raised
           /\ GetStr(EventData(last.ev).taskId) \in DOMAIN Tree.status
           /\ Tree.status[GetStr(EventData(last.ev).taskId)] = WrittenStatus(last.ev)

\* C26 witness: "a" was complete and is running again
C26_Witness ==
    /\ last.op = "ingest" /\ Len(last.prev) >= 1
    /\ last.prev[Len(last.prev)] = TaskCompleted(A, "complete")
    /\ last.ev = TaskStatus(A, "running")
    /\ Tree.status[A] = "running"

------------------------------------------------------------------------------
(* Properties of what snap leaves alone *)

\* C27 (as claimed): snap is read-only, it leaves every field of the engine,
\* the visible-levels cursor among them, as it was before the call
C27_SnapReadOnly ==
    [][(last'.op = "snap" /\ calls' = calls + 1) => state' = state]_vars

\* C27 (amended): snap leaves every field of the engine but the
\* visible-levels cursor as it was; a cursor within 1..active_max_depth + 1
\* is left too, and a cursor above that range is put at active_max_depth + 1
C27_SnapOnlyClampsLevels ==
    [][(last'.op = "snap" /\ calls' = calls + 1) =>
          \A cap \in {ActiveMaxDepth(state.tree) + 1} :
             /\ [state' EXCEPT !.visible_levels = 0] = [state EXCEPT !.visible_levels = 0]
             /\ state.visible_levels \in 1..cap => state'.visible_levels = state.visible_levels
             /\ state.visible_levels > cap => state'.visible_levels = cap]_vars

\* C27 witness: the first call on a new dashboard was snap, which took the
\* cursor from the 2 of the constructor to 1 and left the rest
C27_Witness ==
    /\ last.op = "snap" /\ calls = 1
    /\ state = [DashboardState EXCEPT !.visible_levels = 1]
    /\ DashboardState.visible_levels = 2

------------------------------------------------------------------------------
(* Properties of the sandbox manager *)

\* C28: when run_task has returned, with a handoff of the agent or with the
\* one that says "failed", every sandbox the call registered in
\* active_sandboxes has been terminated and is no more in active_sandboxes
C28_RegisteredAreTerminated ==
    \A c \in Runs :
        manager.co[c].pc = "returned" =>
            /\ manager.co[c].registered \cap manager.active_sandboxes = {}
            /\ manager.co[c].registered \subseteq manager.terminated

------------------------------------------------------------------------------
(* Properties of the progress of a leaf *)

\* C29: in every tree snapshot a node that has no children and whose status
\* is not complete, failed or cancelled has the progress of the table for
\* its status (idle 0.0, pending 0.1, assigned 0.25, running 0.6, 0.0 for
\* any other status), wherever it sits in the tree
C29_LeafProgressFromTable ==
    LET s == Snap
    IN \A n \in DOMAIN s.nodes :
          (s.nodes[n].children = <<>> /\ s.nodes[n].status \notin TerminalStatuses)
              => s.nodes[n].progress = Get(status_progress, s.nodes[n].status, FZero)

------------------------------------------------------------------------------
(* Properties of the arrow keys *)

\* the token names a turn of the wheel
IsWheelToken(token) ==
    token # <<>> /\ Head(token) \in {"MWHEEL_UP", "MWHEEL_DOWN"}

\* C30: poll returns "RIGHT" only for ESC [ C and "LEFT" only for ESC [ D;
\* every other input that begins with the escape byte and is no wheel report
\* (a click reported in SGR or X10 form among them) returns "ESC"
C30_ArrowsOnlyForArrowKeys ==
    [][(/\ tty.enabled /\ tty'.polls = tty.polls + 1
        /\ tty.avail # <<>> /\ Head(tty.avail) = ESC)
       => \A seq \in {Tail(tty.avail)}, token \in {tty'.token} :
             /\ token = <<"RIGHT">> <=> seq = <<LBRACKET, UPPER_A + 2>>
             /\ token = <<"LEFT">> <=> seq = <<LBRACKET, UPPER_A + 3>>
             /\ IsWheelToken(token) \/ token \in {<<"RIGHT">>, <<"LEFT">>, <<"ESC">>}]_vars

------------------------------------------------------------------------------
(* Properties of the role of a node *)

\* the role the event ev supplies for the node n, "None" where it supplies
\* none: "subplanner" from the messages of the decomposition for the task
\* they are about, and else the agent role of the event, where it is
\* "subplanner" or "worker", for the task of the event
RoleSupplied(ev, n) ==
    LET d == EventData(ev)
        decomposed == Or(GetNone(d.parentTaskId), GetNone(ev.taskId))
    IN IF ev.message = <<"Calling LLM for task decomposition">>
          /\ Truthy(decomposed) /\ Str(decomposed) = n
       THEN "subplanner"
       ELSE IF ev.message = <<"Subtask still complex - recursing">>
          /\ Truthy(GetStr(d.subtaskId)) /\ Str(GetStr(d.subtaskId)) = n
       THEN "subplanner"
       ELSE IF EventTaskId(ev) = n /\ ev.agentRole \in {<<"subplanner">>, <<"worker">>}
       THEN ev.agentRole[1]
       ELSE "None"

\* C31: after an event is ingested the snapshot reports for every node the
\* role the event supplied for it; for a node the event supplied no role for,
\* the role it had been given before (for the root, "root-planner" from the
\* start), and for a node that never was given one "planner" at depth 1 and
\* "subplanner" at any greater depth
C31_RoleIsLastSupplied ==
    [][(last'.op = "ingest" /\ calls' = calls + 1 /\ ~last'.raised) =>
          \A s2 \in {snapshot(state'.tree)} :
             \A n \in DOMAIN s2.nodes :
                \A supplied \in {RoleSupplied(last'.ev, n)} :
                   s2.nodes[n].role =
                      IF supplied # "None" THEN supplied
                      ELSE IF n \in DOMAIN state.tree.role THEN state.tree.role[n]
                      ELSE IF s2.nodes[n].depth = 1 THEN "planner" ELSE "subplanner"]_vars

\* C31 witness: "a" was given the role of a worker, the event ingested last
\* for it came from a planner, and the snapshot shows "a" as a worker, the
\* root as root-planner, and "a-sub-1", never given a role, as a subplanner
C31_Witness ==
    /\ last.op = "ingest"
    /\ last.ev = WithRole(TaskStatus(A, "running"), <<"planner">>)
    /\ Snap.nodes[A].role = "worker"
    /\ Snap.nodes[ROOT_ID].role = "root-planner"
    /\ A1 \in DOMAIN Snap.nodes /\ A1 \notin DOMAIN Tree.role
    /\ Snap.nodes[A1].role = "subplanner"

------------------------------------------------------------------------------
(* Properties of the tabs and the scroll offsets *)

\* C32: after every call both scroll offsets are 0 or more and the active
\* tab is "grid" or "activity"; adjust_tree_scroll on one pane leaves the
\* offset of the other pane; a pane or a tab of another name changes nothing;
\* switch_tab moves to the other of the two tabs
C32_TabsAndScrollsStayValid ==
    [][(calls' = calls + 1) =>
          \A l2 \in {last'}, st2 \in {state'} :
             /\ st2.in_progress_scroll >= 0 /\ st2.completed_scroll >= 0
             /\ st2.active_tab \in {"grid", "activity"}
             /\ (l2.op = "adjust_tree_scroll" /\ l2.name = "in_progress")
                   => /\ st2.completed_scroll = state.completed_scroll
                      /\ st2.in_progress_scroll = Max2(0, state.in_progress_scroll + l2.arg)
             /\ (l2.op = "adjust_tree_scroll" /\ l2.name = "completed")
                   => /\ st2.in_progress_scroll = state.in_progress_scroll
                      /\ st2.completed_scroll = Max2(0, state.completed_scroll + l2.arg)
             /\ (l2.op = "adjust_tree_scroll" /\ l2.name \notin {"in_progress", "completed"})
                   => st2 = state
             /\ (l2.op = "set_tab" /\ l2.name \notin {"grid", "activity"}) => st2 = state
             /\ (l2.op = "set_tab" /\ l2.name \in {"grid", "activity"})
                   => st2.active_tab = l2.name
             /\ l2.op = "switch_tab" => st2.active_tab # state.active_tab]_vars

\* C32 witness: on the activity tab the completed pane was scrolled up from
\* offset 0 and stayed there, the in-progress pane being at offset 2
C32_Witness ==
    /\ last.op = "adjust_tree_scroll" /\ last.name = "completed" /\ last.arg = -2
    /\ calls = 3
    /\ state.active_tab = "activity"
    /\ state.in_progress_scroll = 2 /\ state.completed_scroll = 0

------------------------------------------------------------------------------
(* Properties of the wheel *)

\* the step is a poll of the key loop that read bytes
KeyLoopPolled ==
    run.pc = "poll" /\ tty'.arrived = tty.arrived /\ tty'.avail # tty.avail

\* the positions the wheel tokens of the runs name
WheelPositions == Positions \cup {<<0, 0>>, <<7, 8>>}

\* C33: a wheel token at column x changes a scroll offset only when the
\* active tab is "grid" and x >= 32; it then changes one offset, the one of
\* the in-progress pane when x < 32 + max(1, width - 30) div 2 and the one of
\* the completed pane otherwise, by -2 for wheel up and +2 for wheel down,
\* kept at 0 or more; in every other case no offset changes
C33_WheelScrollsPaneUnderMouse ==
    [][(KeyLoopPolled /\ IsWheelToken(tty'.token)) =>
          \A token \in {tty'.token}, st2 \in {state'} :
             /\ \E name \in {"MWHEEL_UP", "MWHEEL_DOWN"}, xy \in WheelPositions :
                   token = WheelToken(name, xy[1], xy[2])
             /\ \A name \in {"MWHEEL_UP", "MWHEEL_DOWN"}, xy \in WheelPositions :
                   token = WheelToken(name, xy[1], xy[2]) =>
                      LET x == xy[1]
                          delta == IF name = "MWHEEL_UP" THEN -2 ELSE 2
                          split == 32 + (Max2(1, tty.width - 30) \div 2)
                      IN IF state.active_tab = "grid" /\ x >= 32
                         THEN IF x < split
                              THEN /\ st2.in_progress_scroll
                                         = Max2(0, state.in_progress_scroll + delta)
                                   /\ st2.completed_scroll = state.completed_scroll
                              ELSE /\ st2.completed_scroll
                                         = Max2(0, state.completed_scroll + delta)
                                   /\ st2.in_progress_scroll = state.in_progress_scroll
                         ELSE /\ st2.in_progress_scroll = state.in_progress_scroll
                              /\ st2.completed_scroll = state.completed_scroll]_vars

\* C33 witness: on a terminal 40 columns wide, where the split is at column
\* 37, the wheel was turned down at column 40 and the completed pane is at
\* offset 2
C33_Witness ==
    /\ tty.width = 40
    /\ tty.token = WheelToken("MWHEEL_DOWN", 40, 8)
    /\ state.active_tab = "grid"
    /\ state.completed_scroll = 2 /\ state.in_progress_scroll = 0

------------------------------------------------------------------------------
(* Properties of the discovery order *)

------------------------------------------------------------------------------
(* Properties of the sentinel *)

\* C35: a producer puts the sentinel on the queue once and as its last item;
\* no line makes it enqueue the sentinel, or an item the drain loop takes for
\* the sentinel, before the end of the stream, so that ingestion stops only at
\* the end of the stream
C35_SentinelOnlyAtStreamEnd ==
    /\ \A i \in 1..Len(run.queue) :
          run.queue[i].none => (run.prod = "done" /\ i = Len(run.queue))
    /\ run.stream_ended => run.prod = "done"

\* the queue holds no event, only sentinels if anything
NoEventQueued == \A i \in 1..Len(run.queue) : run.queue[i].none

\* C36: where the render loop keeps ticking (no exception of ingest has
\* ended the process) and is not interrupted, every
\* event the producer enqueued is in the end dequeued and ingested, none stays
\* on the queue for ever; and once the sentinel has been dequeued no item is
\* taken from the queue any more
C36_EveryEventIngested ==
    /\ <>[](run.interrupted \/ run.pc = "crashed" \/ NoEventQueued)
    /\ [][run.stream_ended => run'.queue = run.queue \o SubSeq(run'.queue, Len(run.queue) + 1, Len(run'.queue))]_vars

\* the nodes the breadth-first walk of lines 131-139 pops, in the order of the
\* pops, cut off after fuel pops
RECURSIVE Popped(_, _, _)
Popped(t, q, fuel) ==
    IF q = <<>> \/ fuel = 0 THEN <<>>
    ELSE <<Head(q)>> \o Popped(t, Tail(q) \o Get(t.children, Head(q), <<>>), fuel - 1)

\* calc(node_id) of lines 156-169 returns: no call below it is a call for a
\* node whose own call is still on the stack
RECURSIVE CalcReturns(_, _, _)
CalcReturns(t, node_id, stack) ==
    LET kids == Get(t.children, node_id, <<>>)
    IN \/ Get(t.status, node_id, "pending") \in TerminalStatuses
       \/ /\ node_id \notin stack
          /\ \A i \in 1..Len(kids) : CalcReturns(t, kids[i], stack \cup {node_id})

\* C37: after any sequence of ensure and update_status calls, the calls that
\* name a node as its own parent or close a cycle of parents included, the
\* snapshot terminates: the breadth-first walk empties its queue, it
\* pops no node twice, and the recursion of calc returns
C37_SnapshotTerminates ==
    LET t == state.tree
        popped == Popped(t, <<ROOT_ID>>, ChildEntries(t) + 2)
    IN /\ ~depth_map(t).diverged
       /\ \A i, j \in 1..Len(popped) : popped[i] = popped[j] => i = j
       /\ CalcReturns(t, ROOT_ID, {})

\* ensure was called with a parent that is a descendant of the node, or the node
\* itself, and the child lists now hold a cycle the walk from the root never enters
C37_Witness ==
    /\ last.op = "ensure"
    /\ \E x \in DOMAIN state.tree.children : x # ROOT_ID /\ ~CalcReturns(state.tree, x, {})
    /\ C37_SnapshotTerminates

\* the ids reachable from the root through the child lists: the least set that
\* holds the root and the children of its members
RECURSIVE Closure(_, _)
Closure(t, S) ==
    LET more == S \cup UNION {Range(Get(t.children, n, <<>>)) : n \in S}
    IN IF more = S THEN S ELSE Closure(t, more)

Reachable(t) == Closure(t, {ROOT_ID})

\* C38: every snapshot is closed and depth-consistent: the root is present at
\* depth 0, the nodes present are exactly the ids reachable from the root through
\* the child lists, every id listed as a child of a present node is present, one
\* level below that node, and max_depth is the largest depth of a present node
C38_SnapshotClosedAndLevelled ==
    \A s \in {Snap} :
        /\ s.root = ROOT_ID
        /\ ROOT_ID \in DOMAIN s.nodes
        /\ s.nodes[ROOT_ID].depth = 0
        /\ DOMAIN s.nodes = Reachable(state.tree)
        /\ \A n \in DOMAIN s.nodes : \A k \in Range(s.nodes[n].children) :
              /\ k \in DOMAIN s.nodes
              /\ s.nodes[k].depth = s.nodes[n].depth + 1
        /\ \A n \in DOMAIN s.nodes : s.nodes[n].depth <= s.max_depth
        /\ \E n \in DOMAIN s.nodes : s.nodes[n].depth = s.max_depth

\* the snapshot has a node two levels below the root, and leaves out an id the
\* tree knows that no child list reachable from the root holds
C38_Witness ==
    \A s \in {Snap} :
        /\ s.max_depth >= 2
        /\ \E x \in DOMAIN state.tree.parent : x \notin DOMAIN s.nodes
        /\ C38_SnapshotClosedAndLevelled

-------------------------------------------------------------------------------
(* Properties of what ingest and the UI commands leave alone *)

\* the UI cursor of a dashboard
UiCursor(st) ==
    <<st.active_tab, st.in_progress_scroll, st.completed_scroll, st.visible_levels>>

\* a dashboard with its UI cursor put back to that of construction: the tree, the
\* counters and the activity log
BesidesCursor(st) ==
    [st EXCEPT !.active_tab = "grid", !.in_progress_scroll = 0,
               !.completed_scroll = 0, !.visible_levels = 2]

UiCommands == {"adjust_visible_levels", "switch_tab", "set_tab", "adjust_tree_scroll"}

\* C39: a call of ingest, whether it returns or raises, leaves the active tab,
\* both scroll offsets and the visible levels as they were; a call of a UI
\* command leaves the tree, the counters and the activity log as they were
C39_IngestAndCommandsKeepApart ==
    [][\A l2 \in {last'}, st2 \in {state'} :
          /\ l2.op = "ingest" => UiCursor(st2) = UiCursor(state)
          /\ l2.op \in UiCommands => BesidesCursor(st2) = BesidesCursor(state)]_vars

\* C39 witness: with the in-progress pane scrolled to offset 2 on the activity
\* tab, a merge result was ingested: it is counted and logged, and the cursor
\* is where the commands left it
C39_Witness ==
    /\ last.op = "ingest" /\ ~last.raised
    /\ state.merge_merged = 1 /\ Len(state.activity) = 1
    /\ state.active_tab = "activity" /\ state.in_progress_scroll = 2

-------------------------------------------------------------------------------
(* Properties of sequences that wait in the terminal back to back *)

\* complete input sequences: two wheel reports, the two arrows that have a
\* token, two plain keys
QueuedSequences ==
    {SgrReport(64, 12, 8, UPPER_M), SgrReport(65, 12, 8, UPPER_M),
     <<ESC, LBRACKET, UPPER_A + 2>>, <<ESC, LBRACKET, UPPER_A + 3>>,
     <<PLUS>>, <<115>>}

\* C40: when two complete sequences wait back to back, a poll returns the token
\* of the first, consumes the bytes of the first only and leaves the bytes of the
\* second for the next poll
C40_OneTokenPerSequence ==
    [][(tty.enabled /\ tty'.polls = tty.polls + 1) =>
          \A s1, s2 \in QueuedSequences :
             tty.avail = s1 \o s2 =>
                /\ tty'.token = poll(TRUE, s1).token
                /\ tty'.avail = s2]_vars

====
